---- MODULE Spec2Model ----
(***************************************************************************)
(* A model of the Enigma I simulator of rjhacks/enigma: the rotor and      *)
(* reflector data types with their validation, the plugboard, the machine  *)
(* (type enigma) with its configuration methods and KeyPress, and the      *)
(* Type helper.  Letters are bytes (ASCII codes), contacts are 0..25, and  *)
(* uint8 arithmetic wraps modulo 256 as in the Go source.                  *)
(***************************************************************************)
EXTENDS Integers, Sequences, FiniteSets, TLC

VARIABLES
  e,         \* the machine: [plugboard, reflector, rotor] (type enigma)
  heap,      \* the Go map objects allocated by AddPlugPair, by reference
  p,         \* the caller's Plugboard value: [mapping |-> reference]
  err,       \* whether the most recent call returned an error
  panicked,  \* a runtime panic (index out of range) has ended the program
  trail,     \* getRotorPositions() at the last (re)positioning and after
             \* each keystroke since
  lastKey,   \* <<[letter, light]>> of the most recent KeyPress, or <<>>
  lastType,  \* <<[pos, in, out]>> of the most recent Type call, or <<>>
  prevType,  \* the same for the Type call before that one, or <<>>
  made,      \* <<[fn, s, turnoverPoint, res]>> of the most recent Make call, or <<>>
  second,    \* a second machine of the same caller
  values,    \* the Rotor and Reflector values the caller builds machines from
  solo,      \* [e, keys, key]: the two machines run alone on the same calls
  run        \* [keys, since]: the keystrokes of a long run, and those since each slot last stepped

vars == <<e, heap, p, err, panicked, trail, lastKey, lastType, prevType, made, second, values, solo, run>>

----------------------------------------------------------------------------
(* Bytes and strings *)

numLetters == 26

\* uint8 arithmetic wraps modulo 256.
Byte(x) == x % 256

Alphabet ==
  <<"A","B","C","D","E","F","G","H","I","J","K","L","M",
    "N","O","P","Q","R","S","T","U","V","W","X","Y","Z">>

\* The byte of a one-character literal: 'A' is 65, ' ' is 32.
Ord(c) ==
  IF c = " " THEN 32
  ELSE 64 + (CHOOSE n \in 1..26 : Alphabet[n] = c)

\* A Go string, given as the tuple of its characters, as its bytes.
Bytes(s) == [i \in 1..Len(s) |-> Ord(s[i])]

Space == Ord(" ")
Letters == {Ord(Alphabet[n]) : n \in 1..26}

----------------------------------------------------------------------------
(* Rotor and Reflector: construction and validation *)

ZeroArray == [i \in 0..(numLetters - 1) |-> 0]
NoTurnover == [i \in 0..(numLetters - 1) |-> FALSE]

\* The loop of ValidateRotor over r.rlMapping[i..25]: "error" on a value
\* above 26, "panic" when seen[26] is indexed, then the check of `seen`.
RECURSIVE ValidateRotorFrom(_, _, _)
ValidateRotorFrom(r, i, seen) ==
  IF i >= numLetters
    THEN IF \E v \in 0..(numLetters - 1) : v \notin seen THEN "error" ELSE "ok"
    ELSE IF r.rlMapping[i] > numLetters THEN "error"
    ELSE IF r.rlMapping[i] >= numLetters THEN "panic"
    ELSE ValidateRotorFrom(r, i + 1, seen \cup {r.rlMapping[i]})

ValidateRotor(r) == ValidateRotorFrom(r, 0, {})

\* MakeRotor: the length check, the conversion s[i] - 'A', the turnover
\* bit (an index into a 26-entry array, so a turnover point outside 'A'-'Z'
\* panics), and the validation.
MakeRotor(s, turnoverPoint) ==
  LET zero == [rlMapping |-> ZeroArray, turnoverPoints |-> NoTurnover]
  IN IF Len(s) # numLetters THEN [err |-> TRUE, panic |-> FALSE, r |-> zero]
     ELSE IF Byte(turnoverPoint - Ord("A")) >= numLetters THEN [err |-> FALSE, panic |-> TRUE, r |-> zero]
     ELSE LET r == [rlMapping |-> [i \in 0..(numLetters - 1) |-> Byte(s[i + 1] - Ord("A"))],
                    turnoverPoints |-> [i \in 0..(numLetters - 1) |-> i = Byte(turnoverPoint - Ord("A"))]]
          IN [err |-> ValidateRotor(r) = "error", panic |-> ValidateRotor(r) = "panic", r |-> r]

MakeRotorOrDie(s, turnoverPoint) == MakeRotor(s, turnoverPoint).r

\* The loop of ValidateReflector over r.mapping[i..25].
RECURSIVE ValidateReflectorFrom(_, _)
ValidateReflectorFrom(r, i) ==
  IF i >= numLetters THEN "ok"
  ELSE IF r.mapping[i] > numLetters THEN "error"
  ELSE IF r.mapping[i] = i THEN "error"
  ELSE IF r.mapping[i] >= numLetters THEN "panic"
  ELSE IF r.mapping[r.mapping[i]] # i THEN "error"
  ELSE ValidateReflectorFrom(r, i + 1)

ValidateReflector(r) == ValidateReflectorFrom(r, 0)

MakeReflector(s) ==
  IF Len(s) # numLetters THEN [err |-> TRUE, panic |-> FALSE, r |-> [mapping |-> ZeroArray]]
  ELSE LET r == [mapping |-> [i \in 0..(numLetters - 1) |-> Byte(s[i + 1] - Ord("A"))]]
       IN [err |-> ValidateReflector(r) = "error", panic |-> ValidateReflector(r) = "panic", r |-> r]

MakeReflectorOrDie(s) == MakeReflector(s).r

\* The registry of the Enigma I rotors.
Rotors ==
  [I   |-> MakeRotorOrDie(Bytes(<<"E","K","M","F","L","G","D","Q","V","Z","N","T","O",
                                   "W","Y","H","X","U","S","P","A","I","B","R","C","J">>), Ord("Q")),
   II  |-> MakeRotorOrDie(Bytes(<<"A","J","D","K","S","I","R","U","X","B","L","H","W",
                                   "T","M","C","Q","G","Z","N","P","Y","F","V","O","E">>), Ord("E")),
   III |-> MakeRotorOrDie(Bytes(<<"B","D","F","H","J","L","C","P","R","T","X","V","Z",
                                   "N","Y","E","I","W","G","A","K","M","U","S","Q","O">>), Ord("V")),
   IV  |-> MakeRotorOrDie(Bytes(<<"E","S","O","V","P","Z","J","A","Y","Q","U","I","R",
                                   "H","X","L","N","F","T","G","K","D","C","M","W","B">>), Ord("J")),
   V   |-> MakeRotorOrDie(Bytes(<<"V","Z","B","R","G","I","T","Y","U","P","S","D","N",
                                   "H","L","X","A","W","M","J","Q","O","F","E","C","K">>), Ord("Z"))]

\* The registry of the Enigma I reflectors.
Reflectors ==
  [A |-> MakeReflectorOrDie(Bytes(<<"E","J","M","Z","A","L","Y","X","V","B","W","F","C",
                                     "R","Q","U","O","N","T","S","P","I","K","H","G","D">>)),
   B |-> MakeReflectorOrDie(Bytes(<<"Y","R","U","H","Q","S","L","D","P","X","N","G","O",
                                     "K","M","I","E","B","F","Z","C","W","V","J","A","T">>)),
   C |-> MakeReflectorOrDie(Bytes(<<"F","V","P","J","I","A","O","Y","E","D","R","Z","X",
                                     "W","G","C","T","K","U","Q","S","B","N","M","H","L">>))]

----------------------------------------------------------------------------
(* Plugboard *)

\* A nil map reference; the map objects are heap[1], heap[2], ...
NilMap == 0

\* The contents of the map a Plugboard value refers to (a nil map reads
\* as an empty one).
MapOf(pb) == IF pb.mapping = NilMap THEN << >> ELSE heap[pb.mapping]

\* mapLetter that looks nothing up: every letter comes back as it is.
mapLetterUnplugged(pp, letter) == letter

\* (*Plugboard).mapLetter on the pointer pp: [isNil, mapping].
mapLetter(pp, letter) ==
  IF pp.isNil THEN letter
  ELSE IF letter \notin DOMAIN MapOf(pp) THEN letter
  ELSE MapOf(pp)[letter]

\* AddPlugPair writing mapping[left] before it has looked at right: a
\* call that fails on right leaves left mapped.
AddPlugPairOpPartialWrite(pv, h, left, right) ==
  LET ref == IF pv.mapping = NilMap THEN Len(h) + 1 ELSE pv.mapping
      h1  == IF pv.mapping = NilMap THEN Append(h, << >>) ELSE h
      m   == h1[ref]
  IN IF left \in DOMAIN m
       THEN [p |-> [mapping |-> ref], heap |-> h1, err |-> TRUE]
     ELSE IF right \in DOMAIN m
       THEN [p |-> [mapping |-> ref],
             heap |-> [h1 EXCEPT ![ref] = (left :> right) @@ m],
             err |-> TRUE]
     ELSE [p |-> [mapping |-> ref],
           heap |-> [h1 EXCEPT ![ref] = (right :> left) @@ (left :> right) @@ m],
           err |-> FALSE]

\* AddPlugPair looking only at left: a right that is already mapped is
\* written over.
AddPlugPairOpLeftOnly(pv, h, left, right) ==
  LET ref == IF pv.mapping = NilMap THEN Len(h) + 1 ELSE pv.mapping
      h1  == IF pv.mapping = NilMap THEN Append(h, << >>) ELSE h
      m   == h1[ref]
  IN IF left \in DOMAIN m
       THEN [p |-> [mapping |-> ref], heap |-> h1, err |-> TRUE]
       ELSE [p |-> [mapping |-> ref],
             heap |-> [h1 EXCEPT ![ref] = (right :> left) @@ (left :> right) @@ m],
             err |-> FALSE]

\* AddPlugPair writing one direction only: mapping[left] = right.
AddPlugPairOpOneDirection(pv, h, left, right) ==
  LET ref == IF pv.mapping = NilMap THEN Len(h) + 1 ELSE pv.mapping
      h1  == IF pv.mapping = NilMap THEN Append(h, << >>) ELSE h
      m   == h1[ref]
  IN IF left \in DOMAIN m \/ right \in DOMAIN m
       THEN [p |-> [mapping |-> ref], heap |-> h1, err |-> TRUE]
       ELSE [p |-> [mapping |-> ref],
             heap |-> [h1 EXCEPT ![ref] = (left :> right) @@ m],
             err |-> FALSE]

\* (*Plugboard).AddPlugPair on the Plugboard value pv, with the map
\* objects h: the map is made on first use, a letter already in it is an
\* error, otherwise both directions are written.
AddPlugPairOp(pv, h, left, right) ==
  LET ref == IF pv.mapping = NilMap THEN Len(h) + 1 ELSE pv.mapping
      h1  == IF pv.mapping = NilMap THEN Append(h, << >>) ELSE h
      m   == h1[ref]
  IN IF left \in DOMAIN m \/ right \in DOMAIN m
       THEN [p |-> [mapping |-> ref], heap |-> h1, err |-> TRUE]
       ELSE [p |-> [mapping |-> ref],
             heap |-> [h1 EXCEPT ![ref] = (right :> left) @@ (left :> right) @@ m],
             err |-> FALSE]

\* The loop of MakePlugboard over pairs[i..]; the pairs given add without
\* error.
RECURSIVE MakePlugboardFrom(_, _, _)
MakePlugboardFrom(acc, pairs, i) ==
  IF i > Len(pairs) THEN acc
  ELSE MakePlugboardFrom(AddPlugPairOp(acc.p, acc.heap, pairs[i][1], pairs[i][2]),
                         pairs, i + 1)

\* MakePlugboard(pairs), with the map objects h.
MakePlugboard(pairs, h) ==
  MakePlugboardFrom([p |-> [mapping |-> NilMap], heap |-> h, err |-> FALSE], pairs, 1)

----------------------------------------------------------------------------
(* The machine *)

\* enigma{}: no plugboard, a zero reflector, no rotors.
New ==
  [plugboard |-> [isNil |-> TRUE, mapping |-> NilMap],
   reflector |-> [mapping |-> ZeroArray],
   rotor     |-> << >>]

\* The Rotor and Reflector values a caller holds and builds machines
\* from: rotors := []Rotor{...}, reflector := Reflectors["B"].
SharedValues == [rotors |-> <<Rotors.I, Rotors.II, Rotors.III>>, reflector |-> Reflectors.B]

\* No keystroke of a long run counted yet.
NoRun == [keys |-> 0, since |-> <<0, 0, 0>>]

\* Two machines that have not been used, each on its own.
NoSolo == [e |-> <<New, New>>, keys |-> <<0, 0>>, key |-> << >>]

\* setUpLoop with the wiring copied instead of inverted.
RECURSIVE setUpLoopCopied(_, _)
setUpLoopCopied(r, i) ==
  IF i >= numLetters THEN r
  ELSE setUpLoopCopied([r EXCEPT !.lrMapping[i] = r.rlMapping[i]], i + 1)

\* setUpLoop filling lrMapping at the index i instead of rlMapping[i],
\* with the contact that rlMapping[i] leads to.
RECURSIVE setUpLoopForward(_, _)
setUpLoopForward(r, i) ==
  IF i >= numLetters THEN r
  ELSE setUpLoopForward([r EXCEPT !.lrMapping[i] = r.rlMapping[r.rlMapping[i]]], i + 1)

\* The loop of setUpRotor filling lrMapping for i .. 25.
RECURSIVE setUpLoop(_, _)
setUpLoop(r, i) ==
  IF i >= numLetters THEN r
  ELSE setUpLoop([r EXCEPT !.lrMapping[r.rlMapping[i]] = i], i + 1)

\* setUpRotor on a fresh (zero) rotorState.
setUpRotor(base) ==
  setUpLoop([rlMapping      |-> base.rlMapping,
             turnoverPoints |-> base.turnoverPoints,
             lrMapping      |-> ZeroArray,
             ringsetting    |-> 0,
             rotation       |-> 0], 0)

\* InstallRotors with the slot list reused: a slot that was there before
\* keeps its ring setting and rotation.
InstallRotorsOpKeeping(en, rotors) ==
  [en EXCEPT !.rotor = [i \in 1..Len(rotors) |->
     IF i <= Len(en.rotor)
       THEN [setUpRotor(rotors[i]) EXCEPT !.ringsetting = en.rotor[i].ringsetting,
                                          !.rotation = en.rotor[i].rotation]
       ELSE setUpRotor(rotors[i])]]

\* InstallRotors: a new slot list is made, one zero rotorState per rotor,
\* and each is set up from its rotor.
InstallRotorsOp(en, rotors) ==
  [en EXCEPT !.rotor = [i \in 1..Len(rotors) |-> setUpRotor(rotors[i])]]

\* SetRingSettings: writes slot by slot and panics at the first entry
\* beyond the installed rotors.  The method has no result, so no call
\* returns an error.
SetRingSettingsOp(en, settings) ==
  [e |-> [en EXCEPT !.rotor = [i \in 1..Len(en.rotor) |->
                     IF i <= Len(settings)
                       THEN [en.rotor[i] EXCEPT !.ringsetting = Byte(settings[i] - Ord("A"))]
                       ELSE en.rotor[i]]],
   panic |-> Len(settings) > Len(en.rotor),
   err |-> FALSE]

\* SetRotorPositions that also puts the ring of each slot it sets back
\* to A.
SetRotorPositionsOpResetting(en, positions) ==
  [e |-> [en EXCEPT !.rotor = [i \in 1..Len(en.rotor) |->
                     IF i <= Len(positions)
                       THEN [en.rotor[i] EXCEPT !.rotation = Byte(positions[i] - Ord("A")),
                                                !.ringsetting = 0]
                       ELSE en.rotor[i]]],
   panic |-> Len(positions) > Len(en.rotor),
   err |-> FALSE]

SetRotorPositionsOp(en, positions) ==
  [e |-> [en EXCEPT !.rotor = [i \in 1..Len(en.rotor) |->
                     IF i <= Len(positions)
                       THEN [en.rotor[i] EXCEPT !.rotation = Byte(positions[i] - Ord("A"))]
                       ELSE en.rotor[i]]],
   panic |-> Len(positions) > Len(en.rotor),
   err |-> FALSE]

getRotorPositions(en) ==
  [i \in 1..Len(en.rotor) |-> Byte(en.rotor[i].rotation + Ord("A"))]

InstallReflectorOp(en, reflector) == [en EXCEPT !.reflector = reflector]

\* SetPlugboard: the machine points at a copy of the Plugboard struct;
\* the copy refers to the same map object.
SetPlugboardOp(en, plugboard) ==
  [en EXCEPT !.plugboard = [isNil |-> FALSE, mapping |-> plugboard.mapping]]

\* Whether slot r sits at one of its turnover points
\* (r.turnoverPoints[r.rotation]).
AtTurnover(r) == r.turnoverPoints[r.rotation]

\* rotateFrom with the leftmost slot stepping from its own turnover point
\* (the test `i > 0` left out).
RECURSIVE rotateFromNoLeftTest(_, _)
rotateFromNoLeftTest(rotor, i) ==
  IF ~(i < Len(rotor)) THEN rotor
  ELSE LET n == Len(rotor)
           turn == \/ i = n - 1
                   \/ (i < n - 1 /\ AtTurnover(rotor[i + 1]))
                   \/ AtTurnover(rotor[i + 2])
       IN rotateFromNoLeftTest(IF turn
                       THEN [rotor EXCEPT ![i + 1].rotation = Byte(@ + 1) % numLetters]
                       ELSE rotor,
                     i + 1)

\* rotateFrom with the slot list read right to left: slot 0 always turns.
RECURSIVE rotateFromReversed(_, _)
rotateFromReversed(rotor, i) ==
  IF ~(i < Len(rotor)) THEN rotor
  ELSE LET n == Len(rotor)
           turn == \/ i = 0
                   \/ (i > 0 /\ i < n - 1 /\ AtTurnover(rotor[i + 1]))
                   \/ (i < n - 1 /\ AtTurnover(rotor[i + 2]))
       IN rotateFromReversed(IF turn
                       THEN [rotor EXCEPT ![i + 1].rotation = Byte(@ + 1) % numLetters]
                       ELSE rotor,
                     i + 1)

\* rotateFrom with the test for a slot to the left off by one (`i > 1`).
RECURSIVE rotateFromOffByOne(_, _)
rotateFromOffByOne(rotor, i) ==
  IF ~(i < Len(rotor)) THEN rotor
  ELSE LET n == Len(rotor)
           turn == \/ i = n - 1
                   \/ (i > 1 /\ i < n - 1 /\ AtTurnover(rotor[i + 1]))
                   \/ AtTurnover(rotor[i + 2])
       IN rotateFromOffByOne(IF turn
                       THEN [rotor EXCEPT ![i + 1].rotation = Byte(@ + 1) % numLetters]
                       ELSE rotor,
                     i + 1)

\* rotateFrom without the modulo: a rotor at 25 steps to 26.
RECURSIVE rotateFromNoWrap(_, _)
rotateFromNoWrap(rotor, i) ==
  IF ~(i < Len(rotor)) THEN rotor
  ELSE LET n == Len(rotor)
           turn == \/ i = n - 1
                   \/ (i > 0 /\ i < n - 1 /\ AtTurnover(rotor[i + 1]))
                   \/ AtTurnover(rotor[i + 2])
       IN rotateFromNoWrap(IF turn
                       THEN [rotor EXCEPT ![i + 1].rotation = Byte(@ + 1)]
                       ELSE rotor,
                     i + 1)

\* rotateFrom without the push by the right neighbour.
RECURSIVE rotateFromNoPush(_, _)
rotateFromNoPush(rotor, i) ==
  IF ~(i < Len(rotor)) THEN rotor
  ELSE LET n == Len(rotor)
           turn == \/ i = n - 1
                   \/ (i > 0 /\ i < n - 1 /\ AtTurnover(rotor[i + 1]))
       IN rotateFromNoPush(IF turn
                       THEN [rotor EXCEPT ![i + 1].rotation = Byte(@ + 1) % numLetters]
                       ELSE rotor,
                     i + 1)

\* The loop of rotate from index i (0-based, as in the source) on the
\* slot list as updated so far; `||` evaluates its right operand only
\* when the left one is false.
RECURSIVE rotateFrom(_, _)
rotateFrom(rotor, i) ==
  IF ~(i < Len(rotor)) THEN rotor
  ELSE LET n == Len(rotor)
           turn == \/ i = n - 1
                   \/ (i > 0 /\ i < n - 1 /\ AtTurnover(rotor[i + 1]))
                   \/ AtTurnover(rotor[i + 2])
       IN rotateFrom(IF turn
                       THEN [rotor EXCEPT ![i + 1].rotation = Byte(@ + 1) % numLetters]
                       ELSE rotor,
                     i + 1)

\* The slot list after the cascade from index i (0-based): the slot
\* steps, and the next one on the left follows only if this one was at a
\* turnover point.
RECURSIVE cascadeFrom(_, _)
cascadeFrom(rotor, i) ==
  IF i < 0 THEN rotor
  ELSE IF AtTurnover(rotor[i + 1])
    THEN cascadeFrom([rotor EXCEPT ![i + 1].rotation = Byte(@ + 1) % numLetters], i - 1)
    ELSE [rotor EXCEPT ![i + 1].rotation = Byte(@ + 1) % numLetters]

\* rotate without the double step: the plain cascade.
rotateCascading(en) == [en EXCEPT !.rotor = cascadeFrom(en.rotor, Len(en.rotor) - 1)]

rotate(en) == [en EXCEPT !.rotor = rotateFrom(en.rotor, 0)]
\* rotate reading the right neighbour before it has tested for the
\* rightmost slot: at the last slot e.rotor[i+1] is out of range.
RECURSIVE rotateOrPanicFromEager(_, _)
rotateOrPanicFromEager(rotor, i) ==
  IF ~(i < Len(rotor)) THEN [rotor |-> rotor, panic |-> FALSE]
  ELSE IF i = Len(rotor) - 1 THEN [rotor |-> rotor, panic |-> TRUE]
  ELSE rotateOrPanicFromEager(
         IF (i > 0 /\ AtTurnover(rotor[i + 1])) \/ AtTurnover(rotor[i + 2])
           THEN [rotor EXCEPT ![i + 1].rotation = Byte(@ + 1) % numLetters]
           ELSE rotor, i + 1)

\* The loop of rotate from index i (0-based) with its index checks:
\* turnoverPoints has 26 entries, so reading it at a rotation above 25
\* panics.  The `||` and `&&` of the source decide which reads are made.
\* Gives the slot list as the loop leaves it and whether it panicked.
RECURSIVE rotateOrPanicFrom(_, _)
rotateOrPanicFrom(rotor, i) ==
  IF ~(i < Len(rotor)) THEN [rotor |-> rotor, panic |-> FALSE]
  ELSE LET n == Len(rotor)
           last    == i = n - 1
           ownRead == ~last /\ i > 0
           ownBad  == ownRead /\ rotor[i + 1].rotation >= numLetters
           own     == ownRead /\ ~ownBad /\ AtTurnover(rotor[i + 1])
           nbrRead == ~last /\ ~ownBad /\ ~own
           nbrBad  == nbrRead /\ rotor[i + 2].rotation >= numLetters
       IN IF ownBad \/ nbrBad THEN [rotor |-> rotor, panic |-> TRUE]
          ELSE LET turn == last \/ own \/ AtTurnover(rotor[i + 2])
               IN rotateOrPanicFrom(
                    IF turn
                      THEN [rotor EXCEPT ![i + 1].rotation = Byte(@ + 1) % numLetters]
                      ELSE rotor,
                    i + 1)

rotateOrPanic(en) == rotateOrPanicFrom(en.rotor, 0)

\* addRotation without the numLetters added before the modulo: a
\* difference below zero wraps to 256 less and is reduced from there.
addRotationNoBias(rot, ringsetting, contact) ==
  Byte(Byte(contact + rot) - ringsetting) % numLetters

\* addRotation with the ring setting left out.
addRotationNoRing(rot, ringsetting, contact) ==
  Byte(Byte(contact + rot) + numLetters) % numLetters

addRotation(rot, ringsetting, contact) ==
  Byte(Byte(Byte(contact + rot) - ringsetting) + numLetters) % numLetters

\* removeRotation with the signs of addRotation.
removeRotationSignSlip(rot, ringsetting, contact) ==
  Byte(Byte(Byte(contact + rot) - ringsetting) + Byte(2 * numLetters)) % numLetters

removeRotation(rot, ringsetting, contact) ==
  Byte(Byte(Byte(contact - rot) + ringsetting) + Byte(2 * numLetters)) % numLetters

\* The right-to-left pass of KeyPress from slot i (1-based) down to 1.
RECURSIVE passRL(_, _, _)
passRL(rotor, i, contact) ==
  IF i < 1 THEN contact
  ELSE LET r == rotor[i]
           c1 == addRotation(r.rotation, r.ringsetting, contact)
           c2 == r.rlMapping[c1]
       IN passRL(rotor, i - 1, removeRotation(r.rotation, r.ringsetting, c2))

\* passLR through the right-to-left wiring.
RECURSIVE passLRForward(_, _, _)
passLRForward(rotor, i, contact) ==
  IF i > Len(rotor) THEN contact
  ELSE LET r == rotor[i]
           c1 == addRotation(r.rotation, r.ringsetting, contact)
           c2 == r.rlMapping[c1]
       IN passLRForward(rotor, i + 1, removeRotation(r.rotation, r.ringsetting, c2))

\* The left-to-right pass of KeyPress from slot i (1-based) up to the last.
RECURSIVE passLR(_, _, _)
passLR(rotor, i, contact) ==
  IF i > Len(rotor) THEN contact
  ELSE LET r == rotor[i]
           c1 == addRotation(r.rotation, r.ringsetting, contact)
           c2 == r.lrMapping[c1]
       IN passLR(rotor, i + 1, removeRotation(r.rotation, r.ringsetting, c2))

\* path with the plugboard on the way in only: the letter that comes back
\* from the rotors lights its own lamp.
pathPlugInOnly(en, letter) ==
  LET l1 == mapLetter(en.plugboard, letter)
      c0 == Byte(l1 - Ord("A"))
      c1 == passRL(en.rotor, Len(en.rotor), c0)
  IN IF c1 >= numLetters THEN [out |-> 0, panic |-> TRUE]
     ELSE LET c2 == en.reflector.mapping[c1]
              c3 == passLR(en.rotor, 1, c2)
          IN [out |-> Byte(c3 + Ord("A")), panic |-> FALSE]

\* The electrical path of KeyPress, after the stepping: plugboard, stator,
\* rotors right to left, reflector, rotors left to right, stator,
\* plugboard.  Indexing the reflector with a contact above 25 panics.
path(en, letter) ==
  LET l1 == mapLetter(en.plugboard, letter)
      c0 == Byte(l1 - Ord("A"))
      c1 == passRL(en.rotor, Len(en.rotor), c0)
  IN IF c1 >= numLetters THEN [out |-> 0, panic |-> TRUE]
     ELSE LET c2 == en.reflector.mapping[c1]
              c3 == passLR(en.rotor, 1, c2)
              l2 == Byte(c3 + Ord("A"))
          IN [out |-> mapLetter(en.plugboard, l2), panic |-> FALSE]

\* KeyPressOp with the path evaluated before the rotors step.
KeyPressOpPathFirst(en, letter) ==
  LET r == path(en, letter)
  IN [e |-> rotate(en), out |-> r.out, panic |-> r.panic]

\* KeyPress that turns the ring of the right rotor along with the rotor.
KeyPressOpRingTurns(en, letter) ==
  LET stepped == rotate(en)
      n == Len(en.rotor)
      r == path(stepped, letter)
  IN [e |-> IF n = 0 THEN stepped
            ELSE [stepped EXCEPT !.rotor[n].ringsetting = Byte(@ + 1) % numLetters],
      out |-> r.out, panic |-> r.panic]

\* KeyPress that steps the rotors once more when the letter is not 'A'.
KeyPressOpLetterSteps(en, letter) ==
  LET stepped == IF letter = Ord("A") THEN rotate(en) ELSE rotate(rotate(en))
      r == path(stepped, letter)
  IN [e |-> stepped, out |-> r.out, panic |-> r.panic]

\* KeyPress: the rotors step, then the path is evaluated.  A panic in
\* rotate ends the call with the slots stepped so far.
KeyPressOp(en, letter) ==
  IF rotateOrPanic(en).panic
    THEN [e |-> [en EXCEPT !.rotor = rotateOrPanic(en).rotor], out |-> 0, panic |-> TRUE]
    ELSE LET stepped == rotate(en)
             r == path(stepped, letter)
         IN [e |-> stepped, out |-> r.out, panic |-> r.panic]


\* TypeLoop with a space taking a keystroke: the rotors step, the space
\* is copied.
RECURSIVE TypeLoopSpaceSteps(_, _, _)
TypeLoopSpaceSteps(acc, msg, i) ==
  IF i > Len(msg) \/ acc.panic THEN acc
  ELSE IF msg[i] = Space
    THEN TypeLoopSpaceSteps([acc EXCEPT !.buffer[i] = Space, !.e = rotate(acc.e)],
                            msg, i + 1)
    ELSE LET r == KeyPressOp(acc.e, msg[i])
         IN TypeLoopSpaceSteps([e       |-> r.e,
                                buffer  |-> [acc.buffer EXCEPT ![i] = r.out],
                                trail   |-> Append(acc.trail, getRotorPositions(r.e)),
                                lastKey |-> <<[letter |-> msg[i], light |-> r.out]>>,
                                panic   |-> r.panic],
                               msg, i + 1)

\* TypeLoop with a space skipped and not copied: the buffer keeps its zero
\* byte there.
RECURSIVE TypeLoopNoCopy(_, _, _)
TypeLoopNoCopy(acc, msg, i) ==
  IF i > Len(msg) \/ acc.panic THEN acc
  ELSE IF msg[i] = Space
    THEN TypeLoopNoCopy(acc, msg, i + 1)
    ELSE LET r == KeyPressOp(acc.e, msg[i])
         IN TypeLoopNoCopy([e       |-> r.e,
                            buffer  |-> [acc.buffer EXCEPT ![i] = r.out],
                            trail   |-> Append(acc.trail, getRotorPositions(r.e)),
                            lastKey |-> <<[letter |-> msg[i], light |-> r.out]>>,
                            panic   |-> r.panic],
                           msg, i + 1)

\* The loop of Type from index i: acc holds the machine, the buffer, and
\* the positions and the last keystroke recorded on the way.
RECURSIVE TypeLoop(_, _, _)
TypeLoop(acc, msg, i) ==
  IF i > Len(msg) \/ acc.panic THEN acc
  ELSE IF msg[i] = Space
    THEN TypeLoop([acc EXCEPT !.buffer[i] = Space], msg, i + 1)
    ELSE LET r == KeyPressOp(acc.e, msg[i])
         IN TypeLoop([e       |-> r.e,
                      buffer  |-> [acc.buffer EXCEPT ![i] = r.out],
                      trail   |-> Append(acc.trail, getRotorPositions(r.e)),
                      lastKey |-> <<[letter |-> msg[i], light |-> r.out]>>,
                      panic   |-> r.panic],
                     msg, i + 1)

\* Type(e, msg), started with the bookkeeping tr and lk.
TypeOp(en, msg, tr, lk) ==
  TypeLoop([e |-> en, buffer |-> [i \in 1..Len(msg) |-> 0],
            trail |-> tr, lastKey |-> lk, panic |-> FALSE], msg, 1)

\* The number of keystrokes msg takes.
NumKeys(msg) == Cardinality({i \in 1..Len(msg) : msg[i] # Space})

----------------------------------------------------------------------------
(* The operations as actions *)

\* The most keystrokes followed after one positioning of the rotors.
MaxKeys == 5

\* The most map objects the caller allocates.
MaxMaps == 1

NoCalls == /\ lastKey' = << >>
           /\ lastType' = << >>
           /\ prevType' = << >>

InstallRotors(rotors) ==
  /\ ~panicked
  /\ e' = InstallRotorsOp(e, rotors)
  /\ trail' = <<getRotorPositions(e')>>
  /\ NoCalls
  /\ err' = FALSE
  /\ UNCHANGED <<heap, p, panicked, made, second, values, solo, run>>

InstallReflector(reflector) ==
  /\ ~panicked
  /\ e' = InstallReflectorOp(e, reflector)
  /\ NoCalls
  /\ err' = FALSE
  /\ UNCHANGED <<heap, p, panicked, trail, made, second, values, solo, run>>

SetRingSettings(settings) ==
  /\ ~panicked
  /\ LET r == SetRingSettingsOp(e, settings)
     IN /\ e' = r.e
        /\ panicked' = r.panic
  /\ NoCalls
  /\ err' = FALSE
  /\ UNCHANGED <<heap, p, trail, made, second, values, solo, run>>

\* SetRotorPositions starts a new message: the Type calls made so far
\* stay on record.
SetRotorPositions(positions) ==
  /\ ~panicked
  /\ LET r == SetRotorPositionsOp(e, positions)
     IN /\ e' = r.e
        /\ panicked' = r.panic
  /\ trail' = <<getRotorPositions(e')>>
  /\ lastKey' = << >>
  /\ err' = FALSE
  /\ UNCHANGED <<heap, p, lastType, prevType, made, second, values, solo, run>>

\* var plugboard Plugboard: the caller starts a new, empty plugboard.
NewPlugboard ==
  /\ ~panicked
  /\ p.mapping # NilMap
  /\ p' = [mapping |-> NilMap]
  /\ NoCalls
  /\ err' = FALSE
  /\ UNCHANGED <<e, heap, panicked, trail, made, second, values, solo, run>>

\* p.AddPlugPair(left, right) on the caller's plugboard.
AddPlugPair(left, right) ==
  /\ ~panicked
  /\ p.mapping = NilMap => Len(heap) < MaxMaps
  /\ LET r == AddPlugPairOp(p, heap, left, right)
     IN /\ p' = r.p
        /\ heap' = r.heap
        /\ err' = r.err
  /\ NoCalls
  /\ UNCHANGED <<e, panicked, trail, made, second, values, solo, run>>

\* e.SetPlugboard(p): the Plugboard struct is copied, the map it refers
\* to is not.
SetPlugboard ==
  /\ ~panicked
  /\ e' = SetPlugboardOp(e, p)
  /\ NoCalls
  /\ err' = FALSE
  /\ UNCHANGED <<heap, p, panicked, trail, made, second, values, solo, run>>

KeyPress(letter) ==
  /\ ~panicked
  /\ Len(trail) <= MaxKeys
  /\ LET r == KeyPressOp(e, letter)
     IN /\ e' = r.e
        /\ panicked' = r.panic
        /\ lastKey' = <<[letter |-> letter, light |-> r.out]>>
  /\ trail' = Append(trail, getRotorPositions(e'))
  /\ lastType' = << >>
  /\ prevType' = << >>
  /\ err' = FALSE
  /\ UNCHANGED <<heap, p, made, second, values, solo, run>>

Type(msg) ==
  /\ ~panicked
  /\ LET r == TypeOp(e, msg, trail, lastKey)
     IN /\ e' = r.e
        /\ panicked' = r.panic
        /\ trail' = r.trail
        /\ lastKey' = r.lastKey
        /\ lastType' = <<[pos |-> getRotorPositions(e), in |-> msg, out |-> r.buffer]>>
  /\ prevType' = lastType
  /\ err' = FALSE
  /\ UNCHANGED <<heap, p, made, second, values, solo, run>>

----------------------------------------------------------------------------
(* The machine driven from its construction *)

Init ==
  /\ e = New
  /\ heap = << >>
  /\ p = [mapping |-> NilMap]
  /\ err = FALSE
  /\ panicked = FALSE
  /\ trail = <<getRotorPositions(New)>>
  /\ lastKey = << >>
  /\ lastType = << >>
  /\ prevType = << >>
  /\ made = << >>
  /\ second = New
  /\ values = SharedValues
  /\ solo = NoSolo
  /\ run = NoRun

TestRotors == {<<Rotors.I, Rotors.II, Rotors.III>>}
TestReflectors == {Reflectors.B}
TestRingSettings == {Bytes(<<"A","A","A">>), Bytes(<<"B","B","B">>)}
TestPositions == {Bytes(<<"A","A","A">>), Bytes(<<"A","D","U">>)}
TestPlugPairs == {Bytes(<<"A","B">>), Bytes(<<"C","D">>)}
TestKeys == {Ord("A")}
TestMessages == {Bytes(<<"A","A","A","A","A">>), Bytes(<<"C","A"," ","B","E">>)}

\* The messages typed: the test messages and, after one of them, the
\* output Type gave for it (the operator types the ciphertext back in).
Typed ==
  TestMessages \cup {lastType[i].out : i \in {j \in 1..Len(lastType) :
                                                lastType[j].in \in TestMessages}}

Next ==
  \/ \E rotors \in TestRotors : InstallRotors(rotors)
  \/ \E reflector \in TestReflectors : InstallReflector(reflector)
  \/ \E settings \in TestRingSettings : SetRingSettings(settings)
  \/ \E positions \in TestPositions : SetRotorPositions(positions)
  \/ NewPlugboard
  \/ \E pair \in TestPlugPairs : AddPlugPair(pair[1], pair[2])
  \/ SetPlugboard
  \/ \E letter \in TestKeys : KeyPress(letter)
  \/ \E msg \in Typed : Len(trail) - 1 + NumKeys(msg) <= MaxKeys /\ Type(msg)

Spec == Init /\ [][Next]_vars

----------------------------------------------------------------------------
(* The stepping, from every position of a machine set up as in the tests *)

\* logical.rotate, the cascade: step the rightmost slot and go on to the
\* left only while the slot just stepped was at a turnover point.  i is
\* the 0-based index of the source.
RECURSIVE logicalRotateFrom(_, _)
logicalRotateFrom(rotor, i) ==
  IF ~(i >= 0) THEN rotor
  ELSE LET turnover == AtTurnover(rotor[i + 1])
           stepped  == [rotor EXCEPT ![i + 1].rotation = Byte(@ + 1) % numLetters]
       IN IF ~turnover THEN stepped ELSE logicalRotateFrom(stepped, i - 1)

logicalRotate(en) == [en EXCEPT !.rotor = logicalRotateFrom(en.rotor, Len(en.rotor) - 1)]

\* The rotor lists positioned at every letter.
FullyPositioned ==
  {<<Rotors.III>>,
   <<Rotors.II, Rotors.III>>,
   <<Rotors.I, Rotors.II, Rotors.III>>}

\* The rotor lists positioned around the turnover points of their rotors.
NearPositioned == {<<Rotors.IV, Rotors.I, Rotors.II, Rotors.III>>}

StepRotors == FullyPositioned \cup NearPositioned

\* The letter at offset d from the turnover point of rotor r.
NearTurnover(r, d) ==
  LET t == CHOOSE i \in 0..(numLetters - 1) : r.turnoverPoints[i]
  IN Ord("A") + ((t + d + numLetters) % numLetters)

StepPositions(rotors) ==
  IF rotors \in FullyPositioned
    THEN [1..Len(rotors) -> Letters]
    ELSE {[i \in 1..Len(rotors) |-> NearTurnover(rotors[i], d[i])] :
            d \in [1..Len(rotors) -> {-1, 0, 1}]}

StepKeys == {Ord("A"), Ord("Z")}

\* The most keystrokes followed from one position.
MaxSteps == 4

\* New(); InstallRotors(rotors); InstallReflector(Reflectors["B"]);
\* SetRotorPositions(positions).
StepInit ==
  /\ \E rotors \in StepRotors :
       LET e1 == InstallReflectorOp(InstallRotorsOp(New, rotors), Reflectors.B)
       IN \E positions \in StepPositions(rotors) :
            e = SetRotorPositionsOp(e1, positions).e
  /\ heap = << >>
  /\ p = [mapping |-> NilMap]
  /\ err = FALSE
  /\ panicked = FALSE
  /\ trail = <<getRotorPositions(e)>>
  /\ lastKey = << >>
  /\ lastType = << >>
  /\ prevType = << >>
  /\ made = << >>
  /\ second = New
  /\ values = SharedValues
  /\ solo = NoSolo
  /\ run = NoRun

StepNext ==
  \E letter \in StepKeys : Len(trail) <= MaxSteps /\ KeyPress(letter)

SpecStep == StepInit /\ [][StepNext]_vars

----------------------------------------------------------------------------
(* The substitution, at every alignment of a configured machine *)

\* The ring settings and plug pairs the machine is configured with.
AlignConfigs ==
  {[settings |-> Bytes(<<"A","A","A">>), pairs |-> << >>],
   [settings |-> Bytes(<<"X","M","V">>),
    pairs |-> <<Bytes(<<"A","M">>), Bytes(<<"F","I">>), Bytes(<<"N","V">>),
                Bytes(<<"P","S">>), Bytes(<<"T","U">>), Bytes(<<"W","Z">>)>>]}

AlignKeys == {Ord("A")}

\* New(); InstallReflector; InstallRotors; SetRingSettings;
\* SetPlugboard(MakePlugboard(pairs)); SetRotorPositions(positions).
AlignInit ==
  /\ \E c \in AlignConfigs :
       LET mk == MakePlugboard(c.pairs, << >>)
           e1 == InstallRotorsOp(InstallReflectorOp(New, Reflectors.A),
                                 <<Rotors.II, Rotors.I, Rotors.III>>)
           e2 == SetRingSettingsOp(e1, c.settings).e
           e3 == IF c.pairs = << >> THEN e2 ELSE SetPlugboardOp(e2, mk.p)
       IN /\ \E positions \in [1..3 -> Letters] :
               e = SetRotorPositionsOp(e3, positions).e
          /\ heap = mk.heap
          /\ p = mk.p
  /\ err = FALSE
  /\ panicked = FALSE
  /\ trail = <<getRotorPositions(e)>>
  /\ lastKey = << >>
  /\ lastType = << >>
  /\ prevType = << >>
  /\ made = << >>
  /\ second = New
  /\ values = SharedValues
  /\ solo = NoSolo
  /\ run = NoRun

AlignNext ==
  \E letter \in AlignKeys : Len(trail) <= 1 /\ KeyPress(letter)

SpecAlign == AlignInit /\ [][AlignNext]_vars

----------------------------------------------------------------------------
(* Properties of the stepping and of the substitution *)

\* The rotation a position letter stands for.
Rot(letter) == Byte(letter - Ord("A"))

\* The rotations of the slots, left to right.
Rotations(en) == [i \in 1..Len(en.rotor) |-> en.rotor[i].rotation]

\* The positions held before and after the most recent keystroke.
Before == trail[Len(trail) - 1]
After == trail[Len(trail)]
Pressed == Len(trail) >= 2

\* Slot i (1-based, left to right) sits at one of its turnover points
\* when the positions are pos.
TurnoverAt(i, pos) == e.rotor[i].turnoverPoints[Rot(pos[i])]

\* Every rotor and the reflector of the machine pass validation.
ValidMachine(en) ==
  /\ ValidateReflector(en.reflector) = "ok"
  /\ \A i \in 1..Len(en.rotor) : ValidateRotor(en.rotor[i]) = "ok"

\* The installed rotors and reflector are those of the tests' example
\* machine: I, II, III and reflector B.
IsExample(en) ==
  /\ Len(en.rotor) = 3
  /\ \A i \in 1..3 :
       LET r == <<Rotors.I, Rotors.II, Rotors.III>>[i]
       IN /\ en.rotor[i].rlMapping = r.rlMapping
          /\ en.rotor[i].turnoverPoints = r.turnoverPoints
  /\ en.reflector = Reflectors.B

\* C2: for the alignment of every reachable state of a valid machine, the
\* substitution of KeyPress is self-inverse: if it maps x to y, it maps y
\* to x, for every letter x.
SelfInverse ==
  ValidMachine(e) =>
    \A x \in Letters : path(e, path(e, x).out).out = x

\* A keystroke was made with plugs in the plugboard and the rings off A,
\* and pressing the lamp that lit gives the key that was pressed.
SelfInverseSeen ==
  /\ lastKey # << >>
  /\ MapOf(e.plugboard) # << >>
  /\ \A i \in 1..Len(e.rotor) : e.rotor[i].ringsetting # 0
  /\ lastKey[1].light \in DOMAIN MapOf(e.plugboard)
  /\ path(e, lastKey[1].light).out = lastKey[1].letter

\* C3: in a keystroke, slot i advances by one (mod 26) iff, on the
\* positions held before it, i is the rightmost slot, or the slot to its
\* right is at a turnover point, or slot i is at a turnover point and has
\* a slot to its left; every other slot keeps its rotation.
SteppingRule ==
  Pressed =>
    \A i \in 1..Len(e.rotor) :
      LET steps == \/ i = Len(e.rotor)
                   \/ (i < Len(e.rotor) /\ TurnoverAt(i + 1, Before))
                   \/ (TurnoverAt(i, Before) /\ i > 1)
      IN Rot(After[i]) = IF steps THEN (Rot(Before[i]) + 1) % numLetters
                                  ELSE Rot(Before[i])

\* A keystroke found the leftmost of several slots at its turnover point
\* and left it where it was.
SteppingRuleSeen ==
  /\ Pressed
  /\ Len(e.rotor) >= 2
  /\ TurnoverAt(1, Before)
  /\ After[1] = Before[1]
  /\ After[2] # Before[2]

\* C4: every keystroke advances the rightmost slot by exactly one position
\* modulo 26.
RightmostSteps ==
  (Pressed /\ Len(e.rotor) >= 1) =>
    Rot(After[Len(e.rotor)]) = (Rot(Before[Len(e.rotor)]) + 1) % numLetters

\* A keystroke took the rightmost slot from Z round to A.
RightmostStepsSeen ==
  /\ Pressed
  /\ Len(e.rotor) >= 1
  /\ Before[Len(e.rotor)] = Ord("Z")
  /\ After[Len(e.rotor)] = Ord("A")

\* The positions before the keystroke before the most recent one.
Earlier == trail[Len(trail) - 2]

\* C5: in a three-rotor machine, when a keystroke has moved the middle
\* rotor onto its turnover position, the next keystroke advances the
\* middle rotor again and the left rotor with it.
DoubleStep ==
  (/\ Len(e.rotor) = 3
   /\ Len(trail) >= 3
   /\ Before[2] # Earlier[2]
   /\ TurnoverAt(2, Before)) =>
     /\ Rot(After[2]) = (Rot(Before[2]) + 1) % numLetters
     /\ Rot(After[1]) = (Rot(Before[1]) + 1) % numLetters

\* Two keystrokes in a row moved the middle rotor, the first of them onto
\* its turnover position.
DoubleStepSeen ==
  /\ Len(e.rotor) = 3
  /\ Len(trail) >= 3
  /\ Before[2] # Earlier[2]
  /\ TurnoverAt(2, Before)
  /\ After[2] # Before[2]
  /\ After[1] # Before[1]

\* C6: with rotors I, II, III, from A,A,U the keystrokes give A,A,V then
\* A,B,W then A,B,X, and from A,D,U they give A,D,V then A,E,W then B,F,X
\* then B,F,Y, whatever key is pressed.
DocumentedSequences ==
  IsExample(e) =>
    /\ trail[1] = Bytes(<<"A","A","U">>) =>
         /\ Len(trail) >= 2 => trail[2] = Bytes(<<"A","A","V">>)
         /\ Len(trail) >= 3 => trail[3] = Bytes(<<"A","B","W">>)
         /\ Len(trail) >= 4 => trail[4] = Bytes(<<"A","B","X">>)
    /\ trail[1] = Bytes(<<"A","D","U">>) =>
         /\ Len(trail) >= 2 => trail[2] = Bytes(<<"A","D","V">>)
         /\ Len(trail) >= 3 => trail[3] = Bytes(<<"A","E","W">>)
         /\ Len(trail) >= 4 => trail[4] = Bytes(<<"B","F","X">>)
         /\ Len(trail) >= 5 => trail[5] = Bytes(<<"B","F","Y">>)

\* Four keystrokes were made from A,D,U, the last of them on another key
\* than A.
DocumentedSequencesSeen ==
  /\ IsExample(e)
  /\ trail[1] = Bytes(<<"A","D","U">>)
  /\ Len(trail) = 5
  /\ trail[5] = Bytes(<<"B","F","Y">>)
  /\ lastKey[1].letter # Ord("A")

\* C7 as claimed: from every rotation triple of a three-rotor machine the
\* cascade and the three-clause rule give the same rotations.
CascadeEquivalent ==
  Len(e.rotor) = 3 => Rotations(logicalRotate(e)) = Rotations(rotate(e))

\* C7, amended: they give the same rotations from every triple in which
\* the middle rotor is not at its turnover point or the right rotor is at
\* its own.
CascadeEquivalentOffNotch ==
  (/\ Len(e.rotor) = 3
   /\ (~AtTurnover(e.rotor[2]) \/ AtTurnover(e.rotor[3]))) =>
     Rotations(logicalRotate(e)) = Rotations(rotate(e))

\* The middle and the right rotor are both at their turnover points:
\* both procedures step all three rotors.
CascadeEquivalentSeen ==
  /\ Len(e.rotor) = 3
  /\ AtTurnover(e.rotor[2])
  /\ AtTurnover(e.rotor[3])
  /\ \A i \in 1..3 : Rotations(logicalRotate(e))[i] # e.rotor[i].rotation
  /\ Rotations(logicalRotate(e)) = Rotations(rotate(e))

\* The machine as it stood before the most recent keystroke.
MachineBefore == SetRotorPositionsOp(e, Before).e

\* C1: on a valid machine, typing a message of letters and spaces, setting
\* the rotors back to the positions it was typed from and typing the
\* output gives the message back.
RoundTrip ==
  (/\ lastType # << >>
   /\ prevType # << >>
   /\ ValidMachine(e)
   /\ lastType[1].pos = prevType[1].pos
   /\ lastType[1].in = prevType[1].out) =>
     lastType[1].out = prevType[1].in

\* A message with a space and with plugged letters was enciphered from
\* A,D,U with two plugs in the plugboard and typed back from A,D,U.
RoundTripSeen ==
  /\ lastType # << >>
  /\ prevType # << >>
  /\ ValidMachine(e)
  /\ Len(e.rotor) = 3
  /\ DOMAIN MapOf(e.plugboard) = {Ord("A"), Ord("B"), Ord("C"), Ord("D")}
  /\ prevType[1].in = Bytes(<<"C","A"," ","B","E">>)
  /\ prevType[1].pos = Bytes(<<"A","D","U">>)
  /\ lastType[1].pos = prevType[1].pos
  /\ lastType[1].in = prevType[1].out
  /\ lastType[1].in # prevType[1].in
  /\ lastType[1].out = prevType[1].in

\* C8: the letter KeyPress returns is the substitution at the rotations
\* held after that keystroke's stepping.
StepsBeforePath ==
  (lastKey # << >> /\ ~panicked) =>
    lastKey[1].light = path(e, lastKey[1].letter).out

\* A keystroke on a valid machine returned a letter that the rotations
\* held before it would not have given.
StepsBeforePathSeen ==
  /\ lastKey # << >>
  /\ ~panicked
  /\ ValidMachine(e)
  /\ Len(e.rotor) = 3
  /\ lastKey[1].light = path(e, lastKey[1].letter).out
  /\ lastKey[1].light # path(MachineBefore, lastKey[1].letter).out

\* Type was called with msg on the example machine, at ring settings
\* `settings` and positions A,A,A, with no plug in the plugboard.
TypedOnExample(settings, msg) ==
  /\ lastType # << >>
  /\ IsExample(e)
  /\ \A i \in 1..3 : e.rotor[i].ringsetting = Rot(settings[i])
  /\ MapOf(e.plugboard) = << >>
  /\ lastType[1].pos = Bytes(<<"A","A","A">>)
  /\ lastType[1].in = msg

\* C9: rotors I, II, III, reflector B, ring settings A,A,A, positions
\* A,A,A, no plugboard: "AAAAA" gives "BDZGO".
KnownAnswerBasic ==
  TypedOnExample(Bytes(<<"A","A","A">>), Bytes(<<"A","A","A","A","A">>)) =>
    lastType[1].out = Bytes(<<"B","D","Z","G","O">>)

\* "AAAAA" was typed on that machine and gave "BDZGO".
KnownAnswerBasicSeen ==
  /\ TypedOnExample(Bytes(<<"A","A","A">>), Bytes(<<"A","A","A","A","A">>))
  /\ lastType[1].out = Bytes(<<"B","D","Z","G","O">>)

\* C10: the same with ring settings B,B,B: "AAAAA" gives "EWTYX".
KnownAnswerRings ==
  TypedOnExample(Bytes(<<"B","B","B">>), Bytes(<<"A","A","A","A","A">>)) =>
    lastType[1].out = Bytes(<<"E","W","T","Y","X">>)

\* "AAAAA" was typed at ring settings B,B,B and gave "EWTYX".
KnownAnswerRingsSeen ==
  /\ TypedOnExample(Bytes(<<"B","B","B">>), Bytes(<<"A","A","A","A","A">>))
  /\ lastType[1].out = Bytes(<<"E","W","T","Y","X">>)

\* The plugboard MakePlugboard(pairs) gives: the contents of its map.
Plugged(pairs) == MakePlugboard(pairs, << >>).heap[1]

\* C11: rotors I, II, III, reflector B, ring settings A,A,A, positions
\* A,A,A and the plugboard pairs A-B and C-D: "AAAAA" gives "BJLDS" (the
\* plugboard acts on the letter typed and on the letter that comes back).
KnownAnswerPlugboard ==
  (/\ lastType # << >>
   /\ IsExample(e)
   /\ \A i \in 1..3 : e.rotor[i].ringsetting = 0
   /\ ~e.plugboard.isNil
   /\ MapOf(e.plugboard) = Plugged(<<Bytes(<<"A","B">>), Bytes(<<"C","D">>)>>)
   /\ lastType[1].pos = Bytes(<<"A","A","A">>)
   /\ lastType[1].in = Bytes(<<"A","A","A","A","A">>)) =>
     lastType[1].out = Bytes(<<"B","J","L","D","S">>)

\* "AAAAA" was typed from A,A,A with the pairs A-B and C-D plugged, and
\* gave "BJLDS": the fourth lamp, C without the plugboard, is D.
KnownAnswerPlugboardSeen ==
  /\ lastType # << >>
  /\ IsExample(e)
  /\ \A i \in 1..3 : e.rotor[i].ringsetting = 0
  /\ ~e.plugboard.isNil
  /\ mapLetter(e.plugboard, Ord("A")) = Ord("B")
  /\ mapLetter(e.plugboard, Ord("C")) = Ord("D")
  /\ lastType[1].pos = Bytes(<<"A","A","A">>)
  /\ lastType[1].in = Bytes(<<"A","A","A","A","A">>)
  /\ lastType[1].out = Bytes(<<"B","J","L","D","S">>)

----------------------------------------------------------------------------
(* The message of TestRealMessage1, typed on the machine set up for it *)

\* The ciphertext of the test.
RealMessage1Encrypted ==
  Bytes(<<"G","C","D","S","E"," ","A","H","U","G","W"," ","T","Q","G","R","K",
          " ","V","L","F","G","X"," ","U","C","A","L","X"," ","V","Y","M","I","G",
          " ","M","M","N","M","F"," ","D","X","T","G","N"," ","V","H","V","R","M",
          " ","M","E","V","O","U"," ","Y","F","Z","S","L"," ","R","H","D","R","R",
          " ","X","F","J","W","C"," ","F","H","U","H","M"," ","U","N","Z","E","F",
          " ","R","D","I","S","I"," ","K","B","G","P","M"," ","Y","V","X","U","Z">>)

\* The plaintext the test expects.
RealMessage1Decrypted ==
  Bytes(<<"F","E","I","N","D"," ","L","I","Q","E","I"," ","N","F","A","N","T",
          " ","E","R","I","E","K"," ","O","L","O","N","N"," ","E","B","E","O","B",
          " ","A","Q","T","E","T"," ","X","A","N","F","A"," ","N","G","S","U","E",
          " ","D","A","U","S","G"," ","A","N","G","B","A"," ","E","R","W","A","L",
          " ","D","E","X","E","N"," ","D","E","D","R","E"," ","I","K","M","O","S",
          " ","T","W","A","E","R"," ","T","S","N","E","U"," ","S","T","A","D","T">>)

\* The plug pairs of the test.
RealMessage1Pairs ==
  <<Bytes(<<"A","M">>), Bytes(<<"F","I">>), Bytes(<<"N","V">>),
    Bytes(<<"P","S">>), Bytes(<<"T","U">>), Bytes(<<"W","Z">>)>>

\* New(); InstallReflector(Reflectors["A"]); InstallRotors(II, I, III);
\* SetRingSettings(X,M,V); SetPlugboard(MakePlugboard(pairs));
\* SetRotorPositions(A,B,L).
MessageInit ==
  /\ LET mk == MakePlugboard(RealMessage1Pairs, << >>)
         e1 == InstallRotorsOp(InstallReflectorOp(New, Reflectors.A),
                               <<Rotors.II, Rotors.I, Rotors.III>>)
         e2 == SetRingSettingsOp(e1, Bytes(<<"X","M","V">>)).e
         e3 == SetPlugboardOp(e2, mk.p)
     IN /\ e = SetRotorPositionsOp(e3, Bytes(<<"A","B","L">>)).e
        /\ heap = mk.heap
        /\ p = mk.p
  /\ err = FALSE
  /\ panicked = FALSE
  /\ trail = <<getRotorPositions(e)>>
  /\ lastKey = << >>
  /\ lastType = << >>
  /\ prevType = << >>
  /\ made = << >>
  /\ second = New
  /\ values = SharedValues
  /\ solo = NoSolo
  /\ run = NoRun

\* The operator types the ciphertext, or stops after any character of it.
MessageNext ==
  \E k \in 1..Len(RealMessage1Encrypted) :
    lastType = << >> /\ Type(SubSeq(RealMessage1Encrypted, 1, k))

SpecMessage == MessageInit /\ [][MessageNext]_vars

\* The machine holds these rotors, left to right, and this reflector.
Installed(en, rotors, reflector) ==
  /\ Len(en.rotor) = Len(rotors)
  /\ \A i \in 1..Len(rotors) :
       /\ en.rotor[i].rlMapping = rotors[i].rlMapping
       /\ en.rotor[i].turnoverPoints = rotors[i].turnoverPoints
  /\ en.reflector = reflector

\* Type was called from A,B,L on the machine of TestRealMessage1.
TypedOnRealMachine ==
  /\ lastType # << >>
  /\ Installed(e, <<Rotors.II, Rotors.I, Rotors.III>>, Reflectors.A)
  /\ \A i \in 1..3 : e.rotor[i].ringsetting = Rot(Bytes(<<"X","M","V">>)[i])
  /\ ~e.plugboard.isNil
  /\ MapOf(e.plugboard) = Plugged(RealMessage1Pairs)
  /\ lastType[1].pos = Bytes(<<"A","B","L">>)

\* C12: with reflector A, rotors II, I, III, ring settings X,M,V, the plug
\* pairs AM, FI, NV, PS, TU, WZ and positions A,B,L, Type on the ciphertext
\* "GCDSE AHUGW ... YVXUZ" returns "FEIND LIQEI ... STADT", and on every
\* beginning of the ciphertext the beginning of that plaintext.
RealMessage ==
  TypedOnRealMachine =>
    \A k \in 1..Len(RealMessage1Encrypted) :
      lastType[1].in = SubSeq(RealMessage1Encrypted, 1, k) =>
        lastType[1].out = SubSeq(RealMessage1Decrypted, 1, k)

\* The whole ciphertext was typed and gave the whole plaintext.
RealMessageSeen ==
  /\ TypedOnRealMachine
  /\ lastType[1].in = RealMessage1Encrypted
  /\ lastType[1].out = RealMessage1Decrypted
  /\ Len(trail) = 91

----------------------------------------------------------------------------
(* Type, on every short message of letters and spaces *)

\* The longest message typed.
MaxLen == 4

TypeChars == {Ord("A"), Ord("B"), Space}

\* Every message of at most MaxLen characters, the empty one included.
TypeMessages == UNION {[1..n -> TypeChars] : n \in 0..MaxLen}

TypePositions == {Bytes(<<"A","A","A">>), Bytes(<<"A","D","U">>)}

\* The plug pairs of the machine: none, or A-B.
TypePairs == {<< >>, <<Bytes(<<"A","B">>)>>}

\* MakeExampleEnigma; SetPlugboard(MakePlugboard(pairs)) if there are
\* pairs; SetRotorPositions(positions).
TypeInit ==
  /\ \E pairs \in TypePairs, positions \in TypePositions :
       LET mk == MakePlugboard(pairs, << >>)
           e1 == InstallReflectorOp(
                   InstallRotorsOp(New, <<Rotors.I, Rotors.II, Rotors.III>>),
                   Reflectors.B)
           e2 == IF pairs = << >> THEN e1 ELSE SetPlugboardOp(e1, mk.p)
       IN /\ e = SetRotorPositionsOp(e2, positions).e
          /\ heap = mk.heap
          /\ p = mk.p
  /\ err = FALSE
  /\ panicked = FALSE
  /\ trail = <<getRotorPositions(e)>>
  /\ lastKey = << >>
  /\ lastType = << >>
  /\ prevType = << >>
  /\ made = << >>
  /\ second = New
  /\ values = SharedValues
  /\ solo = NoSolo
  /\ run = NoRun

\* One call of Type.
TypeNext ==
  \E msg \in TypeMessages : lastType = << >> /\ Type(msg)

SpecType == TypeInit /\ [][TypeNext]_vars

\* The indexes of msg from i on that hold no space, in order.
RECURSIVE KeyIndexes(_, _)
KeyIndexes(msg, i) ==
  IF i > Len(msg) THEN << >>
  ELSE IF msg[i] = Space THEN KeyIndexes(msg, i + 1)
  ELSE <<i>> \o KeyIndexes(msg, i + 1)

\* The characters of s at the indexes of msg that hold no space.
AtKeys(msg, s) ==
  LET idx == KeyIndexes(msg, 1) IN [k \in 1..Len(idx) |-> s[idx[k]]]

\* msg with its spaces removed.
Unspaced(msg) == AtKeys(msg, msg)

\* KeyPress called for keys[i], keys[i+1], ... in turn: the machine it
\* leaves and the letters it returned.
RECURSIVE KeyPresses(_, _, _)
KeyPresses(en, keys, i) ==
  IF i > Len(keys) THEN [e |-> en, out |-> << >>]
  ELSE LET r == KeyPressOp(en, keys[i])
           rest == KeyPresses(r.e, keys, i + 1)
       IN [e |-> rest.e, out |-> <<r.out>> \o rest.out]

\* The machine as it stood when the most recent Type was called.
MachineTyped == SetRotorPositionsOp(e, lastType[1].pos).e

\* C13: Type takes no keystroke for a space: it leaves the rotors where
\* typing the message without its spaces leaves them, and returns the
\* same letters for the characters that are no spaces.
SpacesTakeNoKey ==
  lastType # << >> =>
    LET msg == lastType[1].in
        r == TypeOp(MachineTyped, Unspaced(msg), << >>, << >>)
    IN /\ Len(trail) = NumKeys(msg) + 1
       /\ Rotations(e) = Rotations(r.e)
       /\ AtKeys(msg, lastType[1].out) = r.buffer
       /\ Rotations(e) = Rotations(KeyPresses(MachineTyped, Unspaced(msg), 1).e)

\* "A BA" was typed from A,D,U: the three keystrokes left the rotors at
\* B,F,X, past the double step.
SpacesTakeNoKeySeen ==
  /\ lastType # << >>
  /\ lastType[1].in = Bytes(<<"A"," ","B","A">>)
  /\ lastType[1].pos = Bytes(<<"A","D","U">>)
  /\ getRotorPositions(e) = Bytes(<<"B","F","X">>)
  /\ AtKeys(lastType[1].in, lastType[1].out) =
       TypeOp(MachineTyped, Bytes(<<"A","B","A">>), << >>, << >>).buffer

\* C14: Type returns a string as long as its input, with a space exactly
\* where the input has one and the letter of the k-th KeyPress where the
\* input has its k-th character that is no space.
TypeAligned ==
  lastType # << >> =>
    LET msg == lastType[1].in
        out == lastType[1].out
        lights == KeyPresses(MachineTyped, Unspaced(msg), 1).out
    IN /\ Len(out) = Len(msg)
       /\ \A i \in 1..Len(msg) : out[i] = Space <=> msg[i] = Space
       /\ AtKeys(msg, out) = lights

\* " A B" was typed: spaces came back at indexes 1 and 3, the letters of
\* the two keystrokes at indexes 2 and 4.
TypeAlignedSeen ==
  /\ lastType # << >>
  /\ lastType[1].in = Bytes(<<" ","A"," ","B">>)
  /\ Len(lastType[1].out) = 4
  /\ lastType[1].out[1] = Space
  /\ lastType[1].out[3] = Space
  /\ lastType[1].out[2] = KeyPresses(MachineTyped, Bytes(<<"A","B">>), 1).out[1]
  /\ lastType[1].out[4] = KeyPresses(MachineTyped, Bytes(<<"A","B">>), 1).out[2]
  /\ lastType[1].out[2] \in Letters
  /\ lastType[1].out[4] \in Letters

----------------------------------------------------------------------------
(* The plugboard, built pair by pair and installed *)

\* The letters the caller plugs.
PlugLetters == {Ord("A"), Ord("B"), Ord("C"), Ord("D")}

PlugKeys == {Ord("A")}

\* MakeExampleEnigma, and a caller holding `var plugboard Plugboard`.
PlugInit ==
  /\ e = InstallReflectorOp(
           InstallRotorsOp(New, <<Rotors.I, Rotors.II, Rotors.III>>),
           Reflectors.B)
  /\ heap = << >>
  /\ p = [mapping |-> NilMap]
  /\ err = FALSE
  /\ panicked = FALSE
  /\ trail = <<getRotorPositions(e)>>
  /\ lastKey = << >>
  /\ lastType = << >>
  /\ prevType = << >>
  /\ made = << >>
  /\ second = New
  /\ values = SharedValues
  /\ solo = NoSolo
  /\ run = NoRun

\* The caller adds any pair, in any order, a letter with itself included,
\* installs the plugboard, starts a new one, or presses a key.
PlugNext ==
  \/ NewPlugboard
  \/ \E left, right \in PlugLetters : AddPlugPair(left, right)
  \/ SetPlugboard
  \/ \E letter \in PlugKeys : Len(trail) <= 1 /\ KeyPress(letter)

SpecPlug == PlugInit /\ [][PlugNext]_vars

\* &p: the pointer the caller's plugboard is used through.
CallerPlugboard == [isNil |-> FALSE, mapping |-> p.mapping]

\* The contents of the caller's map after a call of AddPlugPair that
\* returned r.
MapAfter(r) == r.heap[r.p.mapping]

\* C15: AddPlugPair(left, right) returns an error whenever left or right
\* is already in a pair, and then the mapping, and every other map, is
\* what it was before the call.
PairedRejected ==
  \A left, right \in PlugLetters :
    LET m == MapOf(p)
        r == AddPlugPairOp(p, heap, left, right)
    IN (left \in DOMAIN m \/ right \in DOMAIN m) =>
         /\ r.err
         /\ MapAfter(r) = m
         /\ r.heap = heap
         /\ r.p = p

\* A call failed on a plugboard holding the pair A-B and another letter
\* still free: adding A-C, C-A, A-B or B-A fails from here.
PairedRejectedSeen ==
  /\ err
  /\ DOMAIN MapOf(p) = {Ord("A"), Ord("B")}
  /\ MapOf(p)[Ord("A")] = Ord("B")
  /\ AddPlugPairOp(p, heap, Ord("A"), Ord("C")).err
  /\ AddPlugPairOp(p, heap, Ord("C"), Ord("A")).err
  /\ AddPlugPairOp(p, heap, Ord("B"), Ord("A")).err

\* C16, as claimed: AddPlugPair(x, x) returns an error and leaves the
\* plugboard as it was, for every letter x, in a pair or not.
SelfPairRejected ==
  \A x \in PlugLetters :
    LET r == AddPlugPairOp(p, heap, x, x)
    IN /\ r.err
       /\ MapAfter(r) = MapOf(p)

\* A call AddPlugPair(x, x) has returned without error: the letter A is
\* stored as its own partner.
SelfPairStored ==
  /\ ~err
  /\ Ord("A") \in DOMAIN MapOf(p)
  /\ MapOf(p)[Ord("A")] = Ord("A")

\* C17: from every plugboard state, AddPlugPair(L, R) and
\* AddPlugPair(R, L) both fail or both succeed, and when they succeed they
\* leave the same mapping.
AddPlugPairSymmetric ==
  \A left, right \in PlugLetters :
    LET a == AddPlugPairOp(p, heap, left, right)
        b == AddPlugPairOp(p, heap, right, left)
    IN /\ a.err = b.err
       /\ ~a.err => MapAfter(a) = MapAfter(b)
       /\ a.p = b.p

\* The plugboard holds B-A: C-D and D-C can both be added and give the
\* same four entries, A-C and C-A both fail.
AddPlugPairSymmetricSeen ==
  /\ ~err
  /\ DOMAIN MapOf(p) = {Ord("A"), Ord("B")}
  /\ MapOf(p)[Ord("B")] = Ord("A")
  /\ ~AddPlugPairOp(p, heap, Ord("C"), Ord("D")).err
  /\ ~AddPlugPairOp(p, heap, Ord("D"), Ord("C")).err
  /\ MapAfter(AddPlugPairOp(p, heap, Ord("D"), Ord("C")))[Ord("C")] = Ord("D")
  /\ MapAfter(AddPlugPairOp(p, heap, Ord("C"), Ord("D")))[Ord("C")] = Ord("D")
  /\ AddPlugPairOp(p, heap, Ord("A"), Ord("C")).err
  /\ AddPlugPairOp(p, heap, Ord("C"), Ord("A")).err

\* The machine with its plugboard taken out.
Unplugged(en) == [en EXCEPT !.plugboard = New.plugboard]

\* The pairs a plugboard holds: a letter with its partner.
PairsOf(pp) ==
  IF pp.isNil THEN {}
  ELSE {{x, MapOf(pp)[x]} : x \in DOMAIN MapOf(pp)}

\* C18: mapLetter returns the partner of a letter that is in a pair and
\* every other letter unchanged; on a machine that was never given a
\* plugboard and on a plugboard without pairs it returns every letter
\* unchanged, and KeyPress gives what the rotors and the reflector give.
MapLetterMaps ==
  /\ \A pp \in {e.plugboard, CallerPlugboard} :
       \A x \in Letters :
         /\ \A y \in Letters : {x, y} \in PairsOf(pp) => mapLetter(pp, x) = y
         /\ (\A pair \in PairsOf(pp) : x \notin pair) => mapLetter(pp, x) = x
         /\ PairsOf(pp) = {} => mapLetter(pp, x) = x
  /\ (/\ lastKey # << >>
      /\ PairsOf(e.plugboard) = {}) =>
       /\ ~panicked
       /\ lastKey[1].light \in Letters
       /\ lastKey[1].light = path(Unplugged(e), lastKey[1].letter).out

\* A key was pressed on a machine on which SetPlugboard was never called,
\* and lit B for A as it does on the example machine; the caller's own
\* plugboard holds the pair A-C.
MapLetterMapsSeen ==
  /\ lastKey # << >>
  /\ e.plugboard.isNil
  /\ ~panicked
  /\ lastKey[1].letter = Ord("A")
  /\ lastKey[1].light = Ord("B")
  /\ mapLetter(CallerPlugboard, Ord("A")) = Ord("C")
  /\ mapLetter(CallerPlugboard, Ord("C")) = Ord("A")
  /\ mapLetter(CallerPlugboard, Ord("B")) = Ord("B")

\* C19: after any calls of AddPlugPair, failed ones included, the
\* plugboard is an involution, mapLetter(mapLetter(x)) = x for every
\* letter x, and every letter is in at most one pair.
PlugboardInvolution ==
  \A pp \in {e.plugboard, CallerPlugboard} :
    /\ \A x \in Letters : mapLetter(pp, mapLetter(pp, x)) = x
    /\ \A x \in Letters : Cardinality({pair \in PairsOf(pp) : x \in pair}) <= 1

\* Two pairs were added and a call failed after them: all four letters
\* are plugged.
PlugboardInvolutionSeen ==
  /\ err
  /\ DOMAIN MapOf(p) = PlugLetters
  /\ mapLetter(CallerPlugboard, Ord("A")) = Ord("D")
  /\ mapLetter(CallerPlugboard, Ord("D")) = Ord("A")
  /\ mapLetter(CallerPlugboard, Ord("B")) = Ord("C")

----------------------------------------------------------------------------
(* Rotors installed over rotors *)

\* The rotor lists installed: one, two, three and four rotors.
InstallLists ==
  {<<Rotors.III>>,
   <<Rotors.II, Rotors.III>>,
   <<Rotors.I, Rotors.II, Rotors.III>>,
   <<Rotors.IV, Rotors.I, Rotors.II, Rotors.III>>}

\* Ring settings and positions, one per installed rotor, none of them A.
InstallSettings == [1..Len(e.rotor) -> {Ord("B"), Ord("Z")}]
InstallPositions == [1..Len(e.rotor) -> {Ord("D"), Ord("U")}]

InstallKeys == {Ord("A")}

\* From New(): rotors are installed, ring settings and positions are set,
\* a key is pressed, and rotors are installed again.
InstallNext ==
  \/ \E rotors \in InstallLists : InstallRotors(rotors)
  \/ \E reflector \in TestReflectors : InstallReflector(reflector)
  \/ \E settings \in InstallSettings : SetRingSettings(settings)
  \/ \E positions \in InstallPositions : SetRotorPositions(positions)
  \/ \E letter \in InstallKeys : Len(trail) <= 1 /\ KeyPress(letter)

SpecInstall == Init /\ [][InstallNext]_vars

\* Every slot of the machine has ring setting 0 and rotation 0.
AllReset(en) ==
  \A i \in 1..Len(en.rotor) :
    en.rotor[i].ringsetting = 0 /\ en.rotor[i].rotation = 0

\* Every slot of the machine has ring setting 0.
RingsReset(en) == \A i \in 1..Len(en.rotor) : en.rotor[i].ringsetting = 0

\* C20: InstallRotors, called on any machine, whatever its ring settings,
\* rotations and number of slots, leaves one slot per rotor given, each
\* with ring setting 0 and rotation 0; InstallReflector and SetPlugboard
\* after it change neither, and a keystroke leaves the ring settings 0.
InstallResets ==
  \A rotors \in InstallLists :
    LET en == InstallRotorsOp(e, rotors)
    IN /\ Len(en.rotor) = Len(rotors)
       /\ AllReset(en)
       /\ \A reflector \in TestReflectors : AllReset(InstallReflectorOp(en, reflector))
       /\ AllReset(SetPlugboardOp(en, p))
       /\ RingsReset(KeyPressOp(en, Ord("A")).e)

\* Three rotors are installed, with no ring setting and no rotation at 0
\* and a key pressed: installing two, three or four rotors from here
\* gives slots that are all at 0.
InstallResetsSeen ==
  /\ Len(e.rotor) = 3
  /\ \A i \in 1..3 : e.rotor[i].ringsetting # 0 /\ e.rotor[i].rotation # 0
  /\ lastKey # << >>
  /\ \A rotors \in InstallLists :
       /\ Len(InstallRotorsOp(e, rotors).rotor) = Len(rotors)
       /\ AllReset(InstallRotorsOp(e, rotors))

----------------------------------------------------------------------------
(* Ring settings and positions of any length, letters or not *)

ConfigLists ==
  {<<Rotors.II, Rotors.III>>, <<Rotors.I, Rotors.II, Rotors.III>>}

\* A letter, and the byte after 'Z'.
ConfigChars == {Ord("B"), Ord("Z") + 1}

\* The entries given to SetRingSettings and SetRotorPositions: from none
\* up to one more than there are rotors.
ConfigEntries ==
  UNION {[1..n -> ConfigChars] : n \in 0..(Len(e.rotor) + 1)}

ConfigKeys == {Ord("A")}

\* The machine is set up, in any order and any number of times, and then
\* keys are pressed; after a key it is set up again only from
\* InstallRotors on.
ConfigNext ==
  \/ \E rotors \in ConfigLists : InstallRotors(rotors)
  \/ \E reflector \in TestReflectors : InstallReflector(reflector)
  \/ \E settings \in ConfigEntries : Len(trail) = 1 /\ SetRingSettings(settings)
  \/ \E positions \in ConfigEntries : Len(trail) = 1 /\ SetRotorPositions(positions)
  \/ \E letter \in ConfigKeys : Len(trail) <= 2 /\ KeyPress(letter)

SpecConfig == Init /\ [][ConfigNext]_vars

\* One entry per installed rotor, each a letter 'A'-'Z'.
ValidEntries(en, entries) ==
  /\ Len(entries) = Len(en.rotor)
  /\ \A i \in 1..Len(entries) : entries[i] \in Letters

\* The ring settings of the slots, left to right.
RingSettings(en) == [i \in 1..Len(en.rotor) |-> en.rotor[i].ringsetting]

\* C21, as claimed: SetRingSettings and SetRotorPositions return an error
\* when the entries are fewer or more than the installed rotors or one of
\* them is no letter 'A'-'Z'.
ConfigurationRejected ==
  \A entries \in ConfigEntries :
    ~ValidEntries(e, entries) =>
      /\ SetRingSettingsOp(e, entries).err
      /\ ~SetRingSettingsOp(e, entries).panic
      /\ SetRotorPositionsOp(e, entries).err
      /\ ~SetRotorPositionsOp(e, entries).panic

\* Calls with the byte after 'Z' and with too few entries have returned:
\* three rotors are installed, the left one has ring setting 26 and the
\* right one rotation 26, and no call reported an error.
ConfigurationAcceptedSeen ==
  /\ ~panicked
  /\ ~err
  /\ Len(e.rotor) = 3
  /\ e.rotor[1].ringsetting = numLetters
  /\ e.rotor[2].ringsetting = 0
  /\ e.rotor[3].rotation = numLetters

\* C22, as claimed: a SetRingSettings or SetRotorPositions call with
\* entries that are not valid leaves every ring setting and rotation as it
\* was, and no KeyPress fails.
ConfigurationAtomic ==
  /\ \A entries \in ConfigEntries :
       ~ValidEntries(e, entries) =>
         /\ RingSettings(SetRingSettingsOp(e, entries).e) = RingSettings(e)
         /\ Rotations(SetRotorPositionsOp(e, entries).e) = Rotations(e)
  /\ lastKey # << >> => ~panicked

\* A KeyPress has panicked in rotate: the right rotor stands at the
\* rotation 26 that SetRotorPositions stored.
KeyPressFailedSeen ==
  /\ lastKey # << >>
  /\ panicked
  /\ Len(e.rotor) = 3
  /\ e.rotor[3].rotation = numLetters
  /\ \A i \in 1..3 : e.rotor[i].ringsetting = 0

----------------------------------------------------------------------------
(* Making rotors and reflectors from wiring strings *)

\* The wiring string that MakeRotor turns into the given mapping.
WiringOf(mapping) == [i \in 1..numLetters |-> mapping[i - 1] + Ord("A")]

\* Wirings offered to MakeRotor: registry wirings, each with one character
\* replaced (the same letter, another letter, the two bytes after 'Z'),
\* with two characters exchanged, one character short, one too long.
MakeChars == {Ord("A"), Ord("Z"), Ord("Z") + 1, Ord("Z") + 2}
Replaced(s) == {[s EXCEPT ![i] = c] : i \in 1..Len(s), c \in MakeChars \cup {s[1]}}
Exchanged(s) == {[s EXCEPT ![1] = s[j], ![j] = s[1]] : j \in 1..3}
Resized(s) == {SubSeq(s, 1, Len(s) - 1), Append(s, Ord("A"))}
MakeRotorWirings ==
  UNION {Replaced(s) \cup Exchanged(s) \cup Resized(s) :
           s \in {WiringOf(Rotors.I.rlMapping), WiringOf(Rotors.II.rlMapping)}}
MakeTurnovers == {Ord("Q"), Ord("Z") + 1}
MakeReflectorWirings ==
  UNION {Replaced(s) \cup Exchanged(s) \cup Resized(s) :
           s \in {WiringOf(Reflectors.A.mapping), WiringOf(Reflectors.B.mapping)}}
MakePositions == {Bytes(<<"A">>), Bytes(<<"C">>)}
MakeKeys == {Ord("A"), Ord("K")}

\* r, err := MakeRotor(s, turnoverPoint)
MakeRotorCall(s, turnoverPoint) ==
  /\ ~panicked
  /\ LET res == MakeRotor(s, turnoverPoint)
     IN /\ made' = <<[fn |-> "MakeRotor", s |-> s, turnoverPoint |-> turnoverPoint, res |-> res]>>
        /\ err' = res.err
        /\ panicked' = res.panic
  /\ NoCalls
  /\ UNCHANGED <<e, heap, p, trail, second, values, solo, run>>

\* r, err := MakeReflector(s)
MakeReflectorCall(s) ==
  /\ ~panicked
  /\ LET res == MakeReflector(s)
     IN /\ made' = <<[fn |-> "MakeReflector", s |-> s, turnoverPoint |-> 0, res |-> res]>>
        /\ err' = res.err
        /\ panicked' = res.panic
  /\ NoCalls
  /\ UNCHANGED <<e, heap, p, trail, second, values, solo, run>>

\* The value returned by the most recent call of fn, if it returned one.
Returned(fn) == made # << >> /\ made[1].fn = fn /\ ~made[1].res.err /\ ~made[1].res.panic

\* A rotor is made, then a reflector, and a machine is set up from what
\* was returned: e.InstallRotors([]Rotor{*r}), e.InstallReflector(*r).
MakeNext ==
  \/ \E s \in MakeRotorWirings, turnoverPoint \in MakeTurnovers :
       made = << >> /\ MakeRotorCall(s, turnoverPoint)
  \/ \E s \in MakeReflectorWirings :
       (made = << >> \/ (Len(e.rotor) > 0 /\ made[1].fn = "MakeRotor" /\ lastKey = << >>)) /\ MakeReflectorCall(s)
  \/ Returned("MakeRotor") /\ InstallRotors(<<made[1].res.r>>)
  \/ Returned("MakeRotor") /\ InstallRotors(<<Rotors.III, made[1].res.r>>)
  \/ Returned("MakeReflector") /\ InstallReflector(made[1].res.r)
  \/ \E settings \in MakePositions : Len(e.rotor) = 1 /\ Len(trail) = 1 /\ SetRingSettings(settings)
  \/ \E positions \in MakePositions : Len(e.rotor) = 1 /\ Len(trail) = 1 /\ SetRotorPositions(positions)
  \/ \E letter \in MakeKeys : Len(e.rotor) > 0 /\ Len(trail) <= 2 /\ KeyPress(letter)

SpecMake == Init /\ [][MakeNext]_vars

\* The mapping that MakeRotor and MakeReflector derive from a wiring
\* string: the character at position i minus 'A'.
Derived(s) == [i \in 0..(Len(s) - 1) |-> Byte(s[i + 1] - Ord("A"))]

IsBijection(s) ==
  /\ Len(s) = numLetters
  /\ {Derived(s)[i] : i \in 0..(numLetters - 1)} = 0..(numLetters - 1)

IsInvolution(mapping) ==
  \A i \in 0..(numLetters - 1) :
    /\ mapping[i] \in 0..(numLetters - 1)
    /\ mapping[i] # i
    /\ mapping[mapping[i]] = i

\* C23: MakeRotor returns an error exactly when the wiring string is not
\* of length 26 or its mapping (character minus 'A') is not a bijection on
\* 0..25; otherwise it returns a rotor whose rlMapping is that permutation.
MakeRotorContract ==
  (made # << >> /\ made[1].fn = "MakeRotor") =>
    LET s == made[1].s
        res == made[1].res
    IN /\ res.err <=> ~IsBijection(s)
       /\ ~res.err => ~res.panic /\ res.r.rlMapping = Derived(s)

\* C23 witness: MakeRotor was given 26 characters, one of them the byte
\* after 'Z', and ended in a panic instead of returning an error.
MakeRotorPanickedSeen ==
  /\ made # << >>
  /\ made[1].fn = "MakeRotor"
  /\ Len(made[1].s) = numLetters
  /\ made[1].turnoverPoint = Ord("Q")
  /\ \E i \in 1..numLetters : made[1].s[i] = Ord("Z") + 1
  /\ made[1].res.panic
  /\ ~made[1].res.err
  /\ panicked

\* C24: MakeReflector returns an error exactly when the wiring string is
\* not of length 26, or a contact maps to itself, or the mapping is not an
\* involution; every reflector it returns has mapping[mapping[i]] = i and
\* mapping[i] # i for all i in 0..25.
MakeReflectorContract ==
  (made # << >> /\ made[1].fn = "MakeReflector") =>
    LET s == made[1].s
        res == made[1].res
    IN /\ res.err <=> ~(Len(s) = numLetters /\ IsInvolution(Derived(s)))
       /\ ~res.err => ~res.panic /\ res.r.mapping = Derived(s) /\ IsInvolution(res.r.mapping)

\* C24 witness: MakeReflector was given 26 characters, one of them the
\* byte after 'Z', and ended in a panic instead of returning an error.
MakeReflectorPanickedSeen ==
  /\ made # << >>
  /\ made[1].fn = "MakeReflector"
  /\ Len(made[1].s) = numLetters
  /\ \E i \in 1..numLetters : made[1].s[i] = Ord("Z") + 1
  /\ made[1].res.panic
  /\ ~made[1].res.err
  /\ panicked

\* C25: in every rotor slot the derived left-to-right mapping is the
\* inverse of the right-to-left mapping, lrMapping[rlMapping[i]] = i for
\* all i in 0..25, from InstallRotors on and through every keystroke and
\* ring-setting or position change.
InverseWiring ==
  \A k \in 1..Len(e.rotor) : \A i \in 0..(numLetters - 1) :
    e.rotor[k].lrMapping[e.rotor[k].rlMapping[i]] = i

\* C25 witness: a rotor made from a wiring that is in no registry is in
\* the only slot, its ring and position were set, and a key was pressed.
InverseWiringSeen ==
  /\ Len(e.rotor) = 1
  /\ \A name \in DOMAIN Rotors : e.rotor[1].rlMapping # Rotors[name].rlMapping
  /\ e.rotor[1].ringsetting = 2
  /\ e.rotor[1].rotation = 3
  /\ Len(trail) = 2
  /\ lastKey # << >>
  /\ ~panicked
  /\ InverseWiring

----------------------------------------------------------------------------
(* Keystrokes on machines of every set-up *)

KeysLists == {<<Rotors.III>>, <<Rotors.I, Rotors.II, Rotors.III>>}
KeysReflectors == {Reflectors.B, Reflectors.C}
KeysSettings == {[i \in 1..Len(e.rotor) |-> c] : c \in {Ord("A"), Ord("B")}}
KeysPositions ==
  {[i \in 1..Len(e.rotor) |-> Ord("A")],
   [i \in 1..Len(e.rotor) |-> Ord("U")],
   [i \in 1..Len(e.rotor) |-> IF i = Len(e.rotor) THEN Ord("U") ELSE Ord("D")]}
KeysPairs == {Bytes(<<"A","C">>), Bytes(<<"B","D">>)}
KeysLetters == {Ord("A"), Ord("C"), Ord("Z") + 1}

\* From New(): the machine is set up before the first key, the caller
\* builds a plugboard and may go on adding pairs after installing it, and
\* up to three keys are pressed, letters or not.
KeysNext ==
  \/ \E rotors \in KeysLists : Len(e.rotor) = 0 /\ InstallRotors(rotors)
  \/ \E reflector \in KeysReflectors : Len(trail) = 1 /\ InstallReflector(reflector)
  \/ \E settings \in KeysSettings : Len(trail) = 1 /\ Len(e.rotor) > 0 /\ SetRingSettings(settings)
  \/ \E positions \in KeysPositions : Len(trail) = 1 /\ Len(e.rotor) > 0 /\ SetRotorPositions(positions)
  \/ \E pair \in KeysPairs : AddPlugPair(pair[1], pair[2])
  \/ SetPlugboard
  \/ \E letter \in KeysLetters : Len(trail) <= 3 /\ KeyPress(letter)

SpecKeys == Init /\ [][KeysNext]_vars

\* The call just made was a KeyPress.
KeyPressed == lastKey' # << >> /\ Len(trail') = Len(trail) + 1

\* A rotor slot without its rotation.
Unrotated(slot) == [slot EXCEPT !.rotation = 0]

\* C26: KeyPress changes only the rotations of the rotor slots: the
\* number of slots, each slot's wiring, inverse wiring, turnover points
\* and ring setting, the reflector and the plugboard (the pointer and the
\* maps) are the same after the call as before it.
KeyPressFrame ==
  [][KeyPressed =>
       /\ Len(e'.rotor) = Len(e.rotor)
       /\ \A i \in 1..Len(e.rotor) : Unrotated(e'.rotor[i]) = Unrotated(e.rotor[i])
       /\ e'.reflector = e.reflector
       /\ e'.plugboard = e.plugboard
       /\ heap' = heap]_vars

\* C26 witness: a key was pressed on a machine with three rotors, ring
\* settings B, reflector C and a plugboard with A-C, and all three
\* rotors turned.
KeyPressFrameSeen ==
  /\ lastKey # << >>
  /\ ~panicked
  /\ Len(e.rotor) = 3
  /\ \A i \in 1..3 : e.rotor[i].ringsetting = 1
  /\ e.reflector = Reflectors.C
  /\ ~e.plugboard.isNil
  /\ Ord("A") \in DOMAIN MapOf(e.plugboard)
  /\ Len(trail) >= 2
  /\ \A i \in 1..3 : trail[Len(trail)][i] # trail[Len(trail) - 1][i]

\* A machine with the rotors of en at the rotations of en, and nothing
\* else of it: ring settings A, reflector A, no plugboard.
Other(en) ==
  [plugboard |-> New.plugboard,
   reflector |-> Reflectors.A,
   rotor     |-> [i \in 1..Len(en.rotor) |-> [en.rotor[i] EXCEPT !.ringsetting = 0]]]

\* The machine en with its rotors at the positions pos.
At(en, pos) == SetRotorPositionsOp(en, pos).e

\* C27: the rotations after a keystroke depend only on the rotations
\* before it and on the turnover points: any letter pressed on the machine
\* and any letter pressed on a machine with the same rotors and rotations
\* but other ring settings, reflector and plugboard leave equal rotations,
\* and the positions after each key of the letters pressed so far are
\* those of the other machine after as many presses of A from the same
\* starting positions.
SteppedByCount ==
  /\ \A a, b \in KeysLetters :
       Rotations(KeyPressOp(e, a).e) = Rotations(KeyPressOp(Other(e), b).e)
  /\ \A k \in 1..(Len(trail) - 1) :
       trail[k + 1] = getRotorPositions(KeyPressOp(At(Other(e), trail[k]), Ord("A")).e)

\* C27 witness: three keys were pressed, the last of them not A, on three
\* rotors with ring settings B, reflector C and a plugboard, and every
\* rotor has left its starting position.
SteppedByCountSeen ==
  /\ Len(trail) = 4
  /\ lastKey # << >>
  /\ lastKey[1].letter # Ord("A")
  /\ ~panicked
  /\ Len(e.rotor) = 3
  /\ \A i \in 1..3 : e.rotor[i].ringsetting = 1
  /\ e.reflector = Reflectors.C
  /\ ~e.plugboard.isNil
  /\ Ord("A") \in DOMAIN MapOf(e.plugboard)
  /\ \A i \in 1..3 : trail[4][i] # trail[1][i]
  /\ Rotations(e) # Rotations(Other(At(e, trail[1])))

\* The map the machine's plugboard reads, empty when there is none.
InstalledMap == IF e.plugboard.isNil THEN << >> ELSE MapOf(e.plugboard)

\* The call just made was an AddPlugPair on the caller's plugboard.
PairAdded == heap' # heap

\* C28: SetPlugboard installs the plugboard without aliasing: an
\* AddPlugPair on the caller's plugboard after SetPlugboard changes
\* neither the machine's installed plugboard nor the light of any key
\* pressed afterwards.
SetPlugboardCopies ==
  [][(PairAdded /\ ~e.plugboard.isNil) =>
       /\ InstalledMap' = InstalledMap
       /\ \A letter \in KeysLetters :
            KeyPressOp(e, letter).out' = KeyPressOp(e, letter).out]_vars

\* C28 witness: the machine was given a plugboard with the one pair A-C,
\* the caller then added B-D to their plugboard, and the machine's
\* plugboard maps B to D.
SetPlugboardAliasedSeen ==
  /\ ~e.plugboard.isNil
  /\ e.plugboard.mapping = p.mapping
  /\ DOMAIN InstalledMap = {Ord("A"), Ord("B"), Ord("C"), Ord("D")}
  /\ mapLetter(e.plugboard, Ord("B")) = Ord("D")
  /\ Len(e.rotor) = 3
  /\ lastKey # << >>
  /\ lastKey[1].letter = Ord("A")
  /\ ~panicked

\* C30: KeyPress rejects a character outside 'A'-'Z' with an error
\* instead of producing an output letter, and the rejected call does not
\* advance the rotors.
KeyPressRejects ==
  (lastKey # << >> /\ lastKey[1].letter \notin Letters) =>
    /\ err
    /\ ~panicked
    /\ After = Before

\* C30 witness: the byte after 'Z' was pressed on three rotors: no error,
\* no panic, the right rotor advanced and a letter lit up.
KeyPressAcceptedSeen ==
  /\ lastKey # << >>
  /\ lastKey[1].letter = Ord("Z") + 1
  /\ ~err
  /\ ~panicked
  /\ Len(e.rotor) = 3
  /\ After[3] # Before[3]
  /\ lastKey[1].light \in Letters

----------------------------------------------------------------------------
(* Two machines built from the same Rotor and Reflector values *)

MaxShare == 2

Machine(k) == IF k = 1 THEN e ELSE second

\* InstallRotors with setUpRotor working in place on the caller's Rotor:
\* the inverse wiring is written over the wiring of the value itself.
InstallRotorsSharedInPlace(en, vals) ==
  [e      |-> InstallRotorsOp(en, vals.rotors),
   values |-> [vals EXCEPT !.rotors =
                 [i \in 1..Len(vals.rotors) |->
                    [vals.rotors[i] EXCEPT !.rlMapping = setUpRotor(vals.rotors[i]).lrMapping]]]]

\* en.InstallRotors(vals.rotors): the machine after the call and the
\* caller's values after it.  `range rotors` and the parameter `base` of
\* setUpRotor are copies, and the arrays are assigned by value.
InstallRotorsShared(en, vals) ==
  [e |-> InstallRotorsOp(en, vals.rotors), values |-> vals]

\* en.InstallReflector(vals.reflector): the parameter is a copy.
InstallReflectorShared(en, vals) ==
  [e |-> InstallReflectorOp(en, vals.reflector), values |-> vals]

\* Machine k is en after the call; the trail follows the first machine.
ShareBecomes(k, en, positioned) ==
  /\ e' = IF k = 1 THEN en ELSE e
  /\ second' = IF k = 2 THEN en ELSE second
  /\ trail' = IF k = 1 /\ positioned THEN <<getRotorPositions(en)>> ELSE trail

ShareInstallRotors(k) ==
  /\ ~panicked
  /\ LET r == InstallRotorsShared(Machine(k), values)
     IN /\ values' = r.values
        /\ ShareBecomes(k, r.e, TRUE)
  /\ solo' = [solo EXCEPT !.e[k] = InstallRotorsOp(@, SharedValues.rotors),
                          !.keys[k] = 0, !.key = << >>]
  /\ NoCalls
  /\ err' = FALSE
  /\ UNCHANGED <<heap, p, panicked, made, run>>

ShareInstallReflector(k) ==
  /\ ~panicked
  /\ LET r == InstallReflectorShared(Machine(k), values)
     IN /\ values' = r.values
        /\ ShareBecomes(k, r.e, FALSE)
  /\ solo' = [solo EXCEPT !.e[k] = InstallReflectorOp(@, SharedValues.reflector),
                          !.key = << >>]
  /\ NoCalls
  /\ err' = FALSE
  /\ UNCHANGED <<heap, p, panicked, made, run>>

ShareSetRingSettings(k, settings) ==
  /\ ~panicked
  /\ Len(settings) = Len(Machine(k).rotor)
  /\ ShareBecomes(k, SetRingSettingsOp(Machine(k), settings).e, FALSE)
  /\ solo' = [solo EXCEPT !.e[k] = SetRingSettingsOp(@, settings).e, !.key = << >>]
  /\ NoCalls
  /\ err' = FALSE
  /\ UNCHANGED <<heap, p, panicked, made, values, run>>

ShareSetRotorPositions(k, positions) ==
  /\ ~panicked
  /\ Len(positions) = Len(Machine(k).rotor)
  /\ ShareBecomes(k, SetRotorPositionsOp(Machine(k), positions).e, TRUE)
  /\ solo' = [solo EXCEPT !.e[k] = SetRotorPositionsOp(@, positions).e,
                          !.keys[k] = 0, !.key = << >>]
  /\ NoCalls
  /\ err' = FALSE
  /\ UNCHANGED <<heap, p, panicked, made, values, run>>

ShareKeyPress(k, letter) ==
  /\ ~panicked
  /\ solo.keys[k] < MaxShare
  /\ LET r == KeyPressOp(Machine(k), letter)
         alone == KeyPressOp(solo.e[k], letter)
     IN /\ e' = IF k = 1 THEN r.e ELSE e
        /\ second' = IF k = 2 THEN r.e ELSE second
        /\ trail' = IF k = 1 THEN Append(trail, getRotorPositions(r.e)) ELSE trail
        /\ lastKey' = IF k = 1 THEN <<[letter |-> letter, light |-> r.out]>> ELSE lastKey
        /\ panicked' = r.panic
        /\ solo' = [solo EXCEPT !.e[k] = alone.e, !.keys[k] = @ + 1,
                                !.key = <<[machine |-> k, letter |-> letter,
                                           light |-> r.out, alone |-> alone.out]>>]
  /\ lastType' = << >>
  /\ prevType' = << >>
  /\ err' = FALSE
  /\ UNCHANGED <<heap, p, made, values, run>>

ShareSettings == {Bytes(<<"B","B","B">>)}
SharePositions == {Bytes(<<"A","D","U">>)}
ShareKeys == {Ord("A"), Ord("G")}

\* The caller's calls on the two machines, in any order.
ShareNext ==
  \E k \in {1, 2} :
    \/ Len(Machine(k).rotor) = 0 /\ ShareInstallRotors(k)
    \/ Machine(k).reflector = New.reflector /\ ShareInstallReflector(k)
    \/ \E settings \in ShareSettings : solo.keys[k] = 0 /\ ShareSetRingSettings(k, settings)
    \/ \E positions \in SharePositions : solo.keys[k] = 0 /\ ShareSetRotorPositions(k, positions)
    \/ \E letter \in ShareKeys : Len(Machine(k).rotor) > 0 /\ ShareKeyPress(k, letter)

SpecShare == Init /\ [][ShareNext]_vars

----------------------------------------------------------------------------
(* Any number of rotors *)

\* C31: with any number n >= 1 of rotors installed (1, 2, 3 or 4), at
\* every rotation and ring-setting vector, KeyPress of any letter A-Z
\* completes without indexing outside the rotor list or a 26-entry array
\* and returns a letter A-Z.
AnyRotorCount ==
  /\ Len(e.rotor) >= 1 =>
       \A letter \in Letters :
         /\ ~KeyPressOp(e, letter).panic
         /\ KeyPressOp(e, letter).out \in Letters
  /\ lastKey # << >> => ~panicked /\ lastKey[1].light \in Letters

\* C31 witness: a key was pressed on a machine of four rotors with ring
\* settings other than A, and a letter lit up.
AnyRotorCountSeen ==
  /\ Len(e.rotor) = 4
  /\ \A i \in 1..4 : e.rotor[i].ringsetting # 0
  /\ lastKey # << >>
  /\ lastKey[1].light \in Letters
  /\ ~panicked
  /\ After # Before

----------------------------------------------------------------------------
(* Long runs of keystrokes *)

\* The length of the run from the given starting positions: one period
\* of 26*25*26 keystrokes from A,A,A, and 26*26 + 26 from the others.
RunLength(start) ==
  IF start = Bytes(<<"A","A","A">>)
    THEN numLetters * (numLetters - 1) * numLetters
    ELSE numLetters * numLetters + numLetters

\* KeyPress in a long run: the keystrokes are counted, and for each slot
\* those since it last stepped; of the positions only the starting ones
\* and the latest are kept.
RunKeyPress(letter) ==
  /\ ~panicked
  /\ LET r == KeyPressOp(e, letter)
     IN /\ e' = r.e
        /\ panicked' = r.panic
        /\ lastKey' = <<[letter |-> letter, light |-> r.out]>>
        /\ trail' = <<trail[1], getRotorPositions(r.e)>>
        /\ run' = [keys  |-> run.keys + 1,
                   since |-> [i \in 1..3 |->
                                IF r.e.rotor[i].rotation # e.rotor[i].rotation
                                  THEN 0 ELSE run.since[i] + 1]]
  /\ lastType' = << >>
  /\ prevType' = << >>
  /\ err' = FALSE
  /\ UNCHANGED <<heap, p, made, second, values, solo>>

\* MakeExampleEnigma with rotors I, II, III, the left rotor at A and the
\* other two at any positions.
RunInit ==
  /\ \E middle, right \in Letters :
       e = SetRotorPositionsOp(
             InstallReflectorOp(
               InstallRotorsOp(New, <<Rotors.I, Rotors.II, Rotors.III>>),
               Reflectors.B),
             <<Ord("A"), middle, right>>).e
  /\ heap = << >>
  /\ p = [mapping |-> NilMap]
  /\ err = FALSE
  /\ panicked = FALSE
  /\ trail = <<getRotorPositions(e)>>
  /\ lastKey = << >>
  /\ lastType = << >>
  /\ prevType = << >>
  /\ made = << >>
  /\ second = New
  /\ values = SharedValues
  /\ solo = NoSolo
  /\ run = NoRun

RunNext == run.keys < RunLength(trail[1]) /\ RunKeyPress(Ord("A"))

SpecRun == RunInit /\ [][RunNext]_vars

\* C32: every rotor keeps rotating: in a machine of three rotors with
\* one turnover point each, from any starting positions, the rightmost
\* rotor steps on every keystroke, the middle rotor steps at least once
\* in any 26 consecutive keystrokes, and the leftmost at least once in
\* any 26*26 consecutive keystrokes.
KeepsRotating ==
  /\ run.since[3] = 0
  /\ run.since[2] < numLetters
  /\ run.since[1] < numLetters * numLetters

\* C32 witness: the rightmost rotor has just stepped, the middle rotor
\* has stood still for 25 keystrokes and the leftmost for 26*25 - 1.
KeepsRotatingSeen ==
  /\ run.keys > 0
  /\ run.since[3] = 0
  /\ run.since[2] = numLetters - 1
  /\ run.since[1] = numLetters * (numLetters - 1) - 1

----------------------------------------------------------------------------
(* Every ring setting against every position *)

\* From New(): rotors II and III are installed, every slot gets the same
\* ring setting and the same position, any letter A-Z each, and one key
\* is pressed.
OffsetNext ==
  \/ Len(e.rotor) = 0 /\ InstallRotors(<<Rotors.II, Rotors.III>>)
  \/ e.reflector = New.reflector /\ InstallReflector(Reflectors.B)
  \/ \E c \in Letters : Len(e.rotor) > 0 /\ Len(trail) = 1 /\ SetRingSettings(<<c, c>>)
  \/ \E c \in Letters : Len(e.rotor) > 0 /\ Len(trail) = 1 /\ SetRotorPositions(<<c, c>>)
  \/ Len(e.rotor) > 0 /\ Len(trail) <= 1 /\ KeyPress(Ord("A"))

SpecOffset == Init /\ [][OffsetNext]_vars

\* C33: after InstallRotors, SetRingSettings and SetRotorPositions with
\* letters A-Z and any KeyPress calls, every slot's rotation and ring
\* setting are in 0..25; a rotor at 25 steps to 0.
OffsetsInRange ==
  /\ \A i \in 1..Len(e.rotor) :
       /\ e.rotor[i].rotation \in 0..(numLetters - 1)
       /\ e.rotor[i].ringsetting \in 0..(numLetters - 1)
  /\ \A i \in 1..Len(e.rotor) :
       Rotations(KeyPressOp(e, Ord("A")).e)[i] \in
         {e.rotor[i].rotation, (e.rotor[i].rotation + 1) % numLetters}

\* C33 witness: the rings were set to Z, the rotors to Z, a key was
\* pressed, and the right rotor has gone from 25 to 0.
OffsetsInRangeSeen ==
  /\ Len(e.rotor) = 2
  /\ \A i \in 1..2 : e.rotor[i].ringsetting = numLetters - 1
  /\ lastKey # << >>
  /\ Before = Bytes(<<"Z","Z">>)
  /\ e.rotor[2].rotation = 0
  /\ ~panicked

\* C34: for contact, rotation and ring setting in 0..25, addRotation in
\* 8-bit unsigned arithmetic is exactly (contact + rotation - ring) mod 26
\* and removeRotation exactly (contact - rotation + ring) mod 26, both in
\* 0..25: no wrap-around of an intermediate value changes the result.
OffsetArithmetic ==
  \A i \in 1..Len(e.rotor) : \A contact \in 0..(numLetters - 1) :
    LET rot == e.rotor[i].rotation
        ring == e.rotor[i].ringsetting
    IN /\ addRotation(rot, ring, contact)
            = (contact + rot - ring + numLetters) % numLetters
       /\ removeRotation(rot, ring, contact)
            = (contact - rot + ring + numLetters) % numLetters
       /\ addRotation(rot, ring, contact) \in 0..(numLetters - 1)
       /\ removeRotation(rot, ring, contact) \in 0..(numLetters - 1)

\* C34 witness: a slot stands at rotation 0 with ring setting 25, where
\* contact + rotation - ring is below zero for every contact but 25, and
\* a key has gone through it.
OffsetArithmeticSeen ==
  /\ Len(e.rotor) = 2
  /\ e.rotor[1].rotation = 0
  /\ e.rotor[1].ringsetting = numLetters - 1
  /\ addRotation(0, numLetters - 1, 0) = 1
  /\ lastKey # << >>
  /\ ~panicked

\* C35: removeRotation undoes addRotation and the other way round, for
\* contact, rotation and ring setting in 0..25, and both depend on the
\* rotation and the ring setting only through (rotation - ring) mod 26.
OffsetInverse ==
  \A i \in 1..Len(e.rotor) : \A contact \in 0..(numLetters - 1) :
    LET rot == e.rotor[i].rotation
        ring == e.rotor[i].ringsetting
    IN /\ removeRotation(rot, ring, addRotation(rot, ring, contact)) = contact
       /\ addRotation(rot, ring, removeRotation(rot, ring, contact)) = contact
       /\ \A rot2 \in 0..(numLetters - 1) :
            LET ring2 == (rot2 - rot + ring + numLetters) % numLetters
            IN /\ addRotation(rot2, ring2, contact) = addRotation(rot, ring, contact)
               /\ removeRotation(rot2, ring2, contact) = removeRotation(rot, ring, contact)

\* C35 witness: a slot with rotation 3 and ring setting 24, offset 5
\* like rotation 5 with ring setting 0, and a key has gone through it.
OffsetInverseSeen ==
  /\ Len(e.rotor) = 2
  /\ e.rotor[2].rotation = 3
  /\ e.rotor[2].ringsetting = numLetters - 2
  /\ addRotation(3, numLetters - 2, 0) = addRotation(5, 0, 0)
  /\ removeRotation(3, numLetters - 2, addRotation(3, numLetters - 2, 0)) = 0
  /\ lastKey # << >>
  /\ ~panicked

----------------------------------------------------------------------------
(* The validators on mappings with entries out of range *)

\* C36: ValidateRotor and ValidateReflector report every mapping entry
\* outside 0..25, the value 26 included, by returning an error; for no
\* mapping do they index outside a 26-entry array.
ValidatorsReport ==
  (made # << >> /\ Len(made[1].s) = numLetters) =>
    LET mapping == Derived(made[1].s)
        outside == \E i \in 0..(numLetters - 1) : mapping[i] \notin 0..(numLetters - 1)
        rotor == [rlMapping |-> mapping, turnoverPoints |-> NoTurnover]
        reflector == [mapping |-> mapping]
    IN /\ ValidateRotor(rotor) # "panic"
       /\ ValidateReflector(reflector) # "panic"
       /\ outside => ValidateRotor(rotor) = "error" /\ ValidateReflector(reflector) = "error"

\* C36 witness: a mapping that holds the value 26 was validated as a
\* rotor, within MakeRotor, and the validator indexed seen[26]; a mapping
\* with the value 27 in the same place is reported.
ValidatorPanickedSeen ==
  /\ made # << >>
  /\ made[1].fn = "MakeRotor"
  /\ made[1].turnoverPoint \in Letters
  /\ Len(made[1].s) = numLetters
  /\ Derived(made[1].s)[0] = numLetters
  /\ ValidateRotor(made[1].res.r) = "panic"
  /\ ValidateRotor([made[1].res.r EXCEPT !.rlMapping[0] = numLetters + 1]) = "error"
  /\ panicked

----------------------------------------------------------------------------
(* No letter lights its own lamp *)

\* C37: on a machine with validated rotors, a validated reflector and a
\* plugboard of pairs of distinct letters, at every rotor alignment, no
\* letter A-Z is enciphered to itself.
NeverItself ==
  /\ e.reflector \in KeysReflectors =>
       \A x \in Letters : ~KeyPressOp(e, x).panic /\ KeyPressOp(e, x).out # x
  /\ (e.reflector \in KeysReflectors /\ lastKey # << >> /\ lastKey[1].letter \in Letters) =>
       lastKey[1].light # lastKey[1].letter

\* C37 witness: the plugged letter A was pressed on three rotors with
\* ring settings B, behind a plugboard with A-C and B-D, and another
\* letter lit up.
NeverItselfSeen ==
  /\ Len(e.rotor) = 3
  /\ \A i \in 1..3 : e.rotor[i].ringsetting = 1
  /\ e.reflector \in KeysReflectors
  /\ ~e.plugboard.isNil
  /\ DOMAIN MapOf(e.plugboard) = {Ord("A"), Ord("B"), Ord("C"), Ord("D")}
  /\ lastKey # << >>
  /\ lastKey[1].letter = Ord("A")
  /\ lastKey[1].light \in Letters \ {Ord("A")}
  /\ ~panicked

----------------------------------------------------------------------------
(* What the setters leave alone *)

\* C38: SetRingSettings changes no slot's rotation, SetRotorPositions
\* changes no slot's ring setting, and neither of them, nor
\* InstallReflector, nor SetPlugboard, changes any slot's wiring
\* (rlMapping, lrMapping, turnoverPoints) or the number of slots; checked
\* in every state for lists of every length up to one more than the
\* rotors, the longest of which make the call panic part-way.
SettersApart ==
  LET Wiring(en) == [i \in 1..Len(en.rotor) |->
                       [en.rotor[i] EXCEPT !.rotation = 0, !.ringsetting = 0]]
      Lists == {[i \in 1..k |-> c] : k \in 0..(Len(e.rotor) + 1),
                                     c \in {Ord("A"), Ord("B"), Ord("U")}}
  IN /\ \A settings \in Lists :
          LET after == SetRingSettingsOp(e, settings).e
          IN /\ Rotations(after) = Rotations(e)
             /\ Wiring(after) = Wiring(e)
     /\ \A positions \in Lists :
          LET after == SetRotorPositionsOp(e, positions).e
          IN /\ RingSettings(after) = RingSettings(e)
             /\ Wiring(after) = Wiring(e)
     /\ \A reflector \in KeysReflectors :
          InstallReflectorOp(e, reflector).rotor = e.rotor
     /\ SetPlugboardOp(e, p).rotor = e.rotor

\* C38 witness: three rotors whose rings were set to B and whose positions
\* were set to D,D,U, in either order, with reflector C and a plugboard
\* installed afterwards or before, and no key pressed yet.
SettersApartSeen ==
  /\ Len(e.rotor) = 3
  /\ RingSettings(e) = <<1, 1, 1>>
  /\ getRotorPositions(e) = Bytes(<<"D","D","U">>)
  /\ e.reflector = Reflectors.C
  /\ ~e.plugboard.isNil
  /\ \A i \in 1..3 : e.rotor[i].rlMapping = <<Rotors.I, Rotors.II, Rotors.III>>[i].rlMapping
  /\ lastKey = << >>
  /\ ~panicked

----------------------------------------------------------------------------
(* The period of the stepping *)

\* C39: with rotors I, II, III started at A,A,A, the positions are
\* A,A,A again after exactly 26*25*26 = 16900 keystrokes and after no
\* smaller number; and from any start, after a keystroke the middle rotor
\* sits at its turnover point only while the right rotor is one step past
\* its own.
SteppingPeriod ==
  /\ (trail[1] = Bytes(<<"A","A","A">>) /\ run.keys >= 1) =>
       (trail[2] = Bytes(<<"A","A","A">>)
          <=> run.keys = numLetters * (numLetters - 1) * numLetters)
  /\ (run.keys >= 1 /\ AtTurnover(e.rotor[2])) =>
       AtTurnover([e.rotor[3] EXCEPT !.rotation = (@ + numLetters - 1) % numLetters])

\* C39 witness: the run from A,A,A is back at A,A,A on keystroke 16900.
SteppingPeriodSeen ==
  /\ trail = <<Bytes(<<"A","A","A">>), Bytes(<<"A","A","A">>)>>
  /\ run.keys = numLetters * (numLetters - 1) * numLetters
  /\ run.keys # numLetters * numLetters * numLetters
  /\ ~panicked

====
